---- MODULE Spec2Model ----
(***************************************************************************)
(* Model of the baseline price estimator                                   *)
(* (crates/shared/src/price_estimation/baseline.rs) and of the request     *)
(* sharing used by the 1Inch trade finder                                  *)
(* (crates/shared/src/trade_finding/oneinch.rs).                           *)
(*                                                                         *)
(* Option<T> is modelled as a sequence: <<>> is None, <<v>> is Some(v).    *)
(* Result<T, E> is a record with a field ok.                               *)
(*                                                                         *)
(* BigRational comparison keys are modelled exactly, without division:     *)
(* a key is a pair <<hi, lo>> that stands for the rational                 *)
(*     (hi * U256_MAX + lo) / d                                            *)
(* where d > 0 is the denominator of the native token price used by the    *)
(* search (the same d for every candidate of one search) and U256_MAX is   *)
(* 2^256 - 1.  Every lo of the model is far smaller than U256_MAX in       *)
(* absolute value, so keys are ordered lexicographically.                  *)
(***************************************************************************)
EXTENDS Integers, Sequences, FiniteSets, TLC

\* ------------------------------------------------------------------------
\* Bounds of the model
\* ------------------------------------------------------------------------

\* Largest number of pools in one pool snapshot.
MaxPools == 4

\* Number of concurrent callers of the trade finder.
NumCallers == 2

\* Finite gas prices are the f64 values k / 2 for k in 0 .. MaxGasHalves.
MaxGasHalves == 3

\* The last time of the clock.
MaxTime == 2

\* Cache: the largest age of a value that is still returned.
MaxAge == 1

\* Token graph: the number of tokens and the longest list of base tokens.
MaxGraphTokens == 4

MaxBases == 2

\* e2e setup: the number of tests that call run().
NumTests == 3

\* wait_for_condition: the largest timeout, in sleeps of 200 ms.
MaxTimeout == 8

\* wait_for_condition: the largest delay of one await, in the same unit.
MaxDelay == 2

Tokens == {1, 2, 3}

Kinds == {"Sell", "Buy"}

Amounts == {1, 100}

\* The pools of one token pair, each pool given by its reserves <<reserve of
\* the smaller token, reserve of the larger token>>: no pool, one pool
\* (balanced, skewed, or with a zero reserve), or two pools.
PoolLists ==
    { <<>>,
      << <<0, 1000>> >>, << <<1000, 1000>> >>, << <<1000, 100>> >>,
      << <<1000, 1000>>, <<1000, 100>> >>,
      << <<1000, 100>>, <<1000, 1000>> >>,
      << <<0, 1000>>, <<1000, 1000>> >>,
      << <<1000, 100>>, <<0, 1000>> >> }

\* The f64 gas prices, in increasing order: k stands for k / 2, and HugeGas
\* stands for an f64 of at least 2^256 (f64::MAX, +infinity).
HugeGas == MaxGasHalves + 1

GasPrices == 0 .. HugeGas

\* Configurations of the estimator.
NativeTokens == {2, 3}

BaseTokenConfigs == {<<2>>}

\* ------------------------------------------------------------------------
\* Helpers
\* ------------------------------------------------------------------------

None == <<>>

Some(v) == <<v>>

IsSome(o) == Len(o) = 1

Unwrap(o) == o[1]

SetMin(S) == CHOOSE x \in S : \A y \in S : x <= y

\* TokenPair: an unordered pair of distinct tokens.
TokenPairs == {{a, b} : a \in Tokens, b \in Tokens} \ {{t} : t \in Tokens}

RECURSIVE SumLen(_, _)
SumLen(f, S) ==
    IF S = {} THEN 0
    ELSE LET p == CHOOSE x \in S : TRUE IN Len(f[p]) + SumLen(f, S \ {p})

\* Pools = HashMap<TokenPair, Vec<Pool>>; a pair without entry maps to <<>>.
Snapshots ==
    {f \in [TokenPairs -> PoolLists] : SumLen(f, TokenPairs) <= MaxPools}

Queries ==
    [sell_token : Tokens, buy_token : Tokens, in_amount : Amounts, kind : Kinds]

\* ------------------------------------------------------------------------
\* Comparison keys
\* ------------------------------------------------------------------------

KeyLeq(a, b) == a[1] < b[1] \/ (a[1] = b[1] /\ a[2] <= b[2])

\* U256::from_f64_lossy: truncates the fraction, saturates at U256::MAX.
\* The result is <<hi, lo>> for hi * U256_MAX + lo.
from_f64_lossy(g) == IF g = HugeGas THEN <<1, 0>> ELSE <<0, g \div 2>>

\* ------------------------------------------------------------------------
\* Constant-product pools
\* ------------------------------------------------------------------------

FEE_NUMER == 997

FEE_DENOM == 1000

ReserveOf(pool, pair, token) ==
    IF token = SetMin(pair) THEN pool[1] ELSE pool[2]

\* Constant-product output net of the fee; None on a zero reserve.
amount_out(amount_in, reserve_in, reserve_out) ==
    IF reserve_in = 0 \/ reserve_out = 0 THEN None
    ELSE Some((amount_in * FEE_NUMER * reserve_out)
                \div (reserve_in * FEE_DENOM + amount_in * FEE_NUMER))

\* Constant-product input for an output; None on a zero reserve or when the
\* pool cannot pay the output out of its reserve.
amount_in(amount_out_, reserve_in, reserve_out) ==
    IF reserve_in = 0 \/ reserve_out = 0 THEN None
    ELSE IF amount_out_ >= reserve_out THEN None
    ELSE Some(((reserve_in * amount_out_ * FEE_DENOM)
                \div ((reserve_out - amount_out_) * FEE_NUMER)) + 1)

get_amount_out(pool, token_out, amount_in_, token_in) ==
    amount_out(amount_in_,
               ReserveOf(pool, {token_in, token_out}, token_in),
               ReserveOf(pool, {token_in, token_out}, token_out))

get_amount_in(pool, token_in, amount_out_, token_out) ==
    amount_in(amount_out_,
              ReserveOf(pool, {token_in, token_out}, token_in),
              ReserveOf(pool, {token_in, token_out}, token_out))

\* ------------------------------------------------------------------------
\* Amount estimator (baseline_solver)
\* ------------------------------------------------------------------------

\* Ordering of Option<U256>: None is smaller than every Some.
OptLeq(a, b) == ~IsSome(a) \/ (IsSome(b) /\ Unwrap(a) <= Unwrap(b))

\* None is the greatest required input.
OptLess(a, b) == IsSome(a) /\ (~IsSome(b) \/ Unwrap(a) < Unwrap(b))

\* Iterator::max_by over the amounts of a non-empty list: the last of
\* several equally maximum elements is returned.
RECURSIVE MaxByAmount(_, _, _)
MaxByAmount(amounts, i, best) ==
    IF i > Len(amounts) THEN best
    ELSE MaxByAmount(amounts, i + 1,
                     IF OptLeq(amounts[best], amounts[i]) THEN i ELSE best)

\* Iterator::min_by over the required inputs of a non-empty list: the
\* first of several equally minimum elements is returned.
RECURSIVE MinByAmount(_, _, _)
MinByAmount(amounts, i, best) ==
    IF i > Len(amounts) THEN best
    ELSE MinByAmount(amounts, i + 1,
                     IF OptLess(amounts[i], amounts[best]) THEN i ELSE best)

\* The chosen pool and its amount: <<pool index, Option amount>>.
PickAt(amounts, b) == Some(<<b, amounts[b]>>)

AmountsOut(list, amount, token_in, token_out) ==
    [k \in 1 .. Len(list) |-> get_amount_out(list[k], token_out, amount, token_in)]

AmountsIn(list, amount, token_in, token_out) ==
    [k \in 1 .. Len(list) |-> get_amount_in(list[k], token_in, amount, token_out)]

BestOut(outs) ==
    IF Len(outs) = 0 THEN None ELSE PickAt(outs, MaxByAmount(outs, 1, 1))

BestIn(ins) ==
    IF Len(ins) = 0 THEN None ELSE PickAt(ins, MinByAmount(ins, 1, 1))

\* The pool chosen for one forward hop and the amount it pays; None if the
\* pair has no pool.
BestPoolOut(amount, token_in, token_out, pools) ==
    IF token_in = token_out THEN None
    ELSE BestOut(AmountsOut(pools[{token_in, token_out}], amount, token_in,
                            token_out))

\* The pool chosen for one backward hop and the amount it requires.
BestPoolIn(amount, token_in, token_out, pools) ==
    IF token_in = token_out THEN None
    ELSE BestIn(AmountsIn(pools[{token_in, token_out}], amount, token_in,
                          token_out))

RECURSIVE BuyFold(_, _, _, _, _)

\* One forward hop: the path is infeasible if the hop has no pool or the
\* chosen pool pays nothing.
BuyStep(hop, path, i, used, pools) ==
    IF ~IsSome(hop) THEN None
    ELSE IF ~IsSome(Unwrap(hop)[2]) THEN None
    ELSE BuyFold(Unwrap(Unwrap(hop)[2]), path, i + 1,
                 Append(used, Unwrap(hop)[1]), pools)

\* Sell mode: walk the hops forward from position i with the amount so far.
\* The result is Option [value, path] where path lists the chosen pools.
BuyFold(amount, path, i, used, pools) ==
    IF i >= Len(path) THEN Some([value |-> amount, path |-> used])
    ELSE BuyStep(BestPoolOut(amount, path[i], path[i + 1], pools), path, i,
                 used, pools)

estimate_buy_amount(sell_amount, path, pools) ==
    IF Len(path) = 0 THEN None
    ELSE BuyFold(sell_amount, path, 1, <<>>, pools)

RECURSIVE SellFold(_, _, _, _, _)

\* One backward hop.
SellStep(hop, path, i, used, pools) ==
    IF ~IsSome(hop) THEN None
    ELSE IF ~IsSome(Unwrap(hop)[2]) THEN None
    ELSE SellFold(Unwrap(Unwrap(hop)[2]), path, i - 1,
                  <<Unwrap(hop)[1]>> \o used, pools)

\* Buy mode: walk the hops backward from position i with the amount so far.
SellFold(amount, path, i, used, pools) ==
    IF i <= 1 THEN Some([value |-> amount, path |-> used])
    ELSE SellStep(BestPoolIn(amount, path[i - 1], path[i], pools), path, i,
                  used, pools)

estimate_sell_amount(buy_amount, path, pools) ==
    IF Len(path) = 0 THEN None
    ELSE SellFold(buy_amount, path, Len(path), <<>>, pools)

\* Gas model of the path comparison: a fixed cost plus a cost per pool.
POOL_SWAP_GAS_COST == 60000

ESTIMATE_BASE_GAS_COST == 50000

gas_cost(estimate) ==
    ESTIMATE_BASE_GAS_COST + POOL_SWAP_GAS_COST * Len(estimate.path)

\* ------------------------------------------------------------------------
\* Token graph (BaseTokens)
\* ------------------------------------------------------------------------

RECURSIVE ViaBase(_, _, _, _)
ViaBase(bases, i, sell_token, buy_token) ==
    IF i > Len(bases) THEN <<>>
    ELSE (IF bases[i] \in {sell_token, buy_token} THEN <<>>
          ELSE << <<sell_token, bases[i], buy_token>> >>)
         \o ViaBase(bases, i + 1, sell_token, buy_token)

\* Mutant: the base tokens are walked from the last to the first.
RECURSIVE ViaBase_reversed(_, _, _, _)
ViaBase_reversed(bases, i, sell_token, buy_token) ==
    IF i > Len(bases) THEN <<>>
    ELSE ViaBase_reversed(bases, i + 1, sell_token, buy_token)
         \o (IF bases[i] \in {sell_token, buy_token} THEN <<>>
             ELSE << <<sell_token, bases[i], buy_token>> >>)

\* Mutant: the candidates through the base tokens come in reverse order.
path_candidates_reversed(bases, sell_token, buy_token) ==
    << <<sell_token, buy_token>> >>
        \o ViaBase_reversed(bases, 1, sell_token, buy_token)

\* The direct path, then one path through every base token that is not an
\* end point, in configured order.
path_candidates(bases, sell_token, buy_token) ==
    << <<sell_token, buy_token>> >> \o ViaBase(bases, 1, sell_token, buy_token)

\* ------------------------------------------------------------------------
\* State
\* ------------------------------------------------------------------------

VARIABLES
    native_token,   \* BaselinePriceEstimator::native_token
    base_tokens,    \* BaselinePriceEstimator::base_tokens, in configured order
    est_pc,         \* position of the estimate() future
    query,          \* the Query of the running estimate()
    gas_fut,        \* the gas price future of try_join
    pools_fut,      \* the pools future of try_join
    est_path,       \* the path returned by estimate_price_helper
    est_result,     \* the PriceEstimateResult of estimate()
    est_searches,   \* the invocations of best_execution of estimate()
    disabled_protocols, \* Inner::disabled_protocols
    cache,          \* Inner::cache: the entries of the protocols and the spender
    now,            \* the time (Instant::now)
    tf_pc,          \* position of every caller of the trade finder
    tf_op,          \* the operation of every caller: "quote" or "trade"
    tf_query,       \* the Query of every caller
    tf_handle,      \* the shared future every caller holds (0: none)
    tf_spender,     \* the future of Inner::spender of every get_trade
    tf_swap,        \* the future of Inner::swap of every get_trade
    tf_result,      \* the Result every caller got
    in_flight,      \* RequestSharing: InternalQuery -> shared future (0: none)
    shared,         \* the shared futures: state, request and output
    g_pc,           \* BaseTokens::path_candidates: before or after the call
    g_bases,        \* BaseTokens: the configured base tokens, in order
    g_sell,         \* path_candidates: the argument sell_token
    g_buy,          \* path_candidates: the argument buy_token
    g_paths,        \* path_candidates: the candidates returned
    mutex_owner,    \* NODE_MUTEX: the test that holds the guard (0: unlocked)
    mutex_poisoned, \* NODE_MUTEX: poisoned by a guard dropped in a panic
    t_pc,           \* position of every test in run()
    t_result,       \* run(): the result of catch_unwind of every test
    node_dirty,     \* the test node differs from the snapshot of the test
    db_dirty,       \* the database holds rows
    w_pc,           \* position of wait_for_condition
    w_timeout,      \* wait_for_condition: timeout, in sleeps of 200 ms
    w_elapsed,      \* wait_for_condition: start.elapsed(), in the same unit
    w_evals,        \* wait_for_condition: evaluations of the condition
    w_last,         \* wait_for_condition: what the last evaluation returned
    w_result        \* wait_for_condition: the Result returned

est_vars ==
    <<native_token, base_tokens, est_pc, query, gas_fut, pools_fut, est_path,
      est_result, est_searches>>

tf_vars ==
    <<disabled_protocols, cache, now, tf_pc, tf_op, tf_query, tf_handle,
      tf_spender, tf_swap, tf_result, in_flight, shared>>

graph_vars == <<g_pc, g_bases, g_sell, g_buy, g_paths>>

e2e_vars ==
    <<mutex_owner, mutex_poisoned, t_pc, t_result, node_dirty, db_dirty>>

wait_vars == <<w_pc, w_timeout, w_elapsed, w_evals, w_last, w_result>>

\* The variables outside the estimator and the trade finder.
aux_vars == <<graph_vars, e2e_vars, wait_vars>>

vars == <<est_vars, tf_vars, aux_vars>>

\* ------------------------------------------------------------------------
\* Best-execution search (baseline.rs)
\* ------------------------------------------------------------------------

\* BaselinePriceEstimator::native_token_price_estimation_amount
native_token_price_estimation_amount == 1000

\* The price num / den of a token in the native token.
PriceOne == [num |-> 1, den |-> 1]

amounts_to_price(sell_amount, buy_amount) ==
    IF buy_amount = 0 THEN None
    ELSE Some([num |-> sell_amount, den |-> buy_amount])

\* The denominator all keys of one search are scaled by.
KeyDen(price) == IF IsSome(price) THEN Unwrap(price).den ELSE 1

\* -U256::max_value().to_big_rational()
WorstKey(price) == <<-KeyDen(price), 0>>

NoLiquidity == [ok |-> FALSE, err |-> "NoLiquidity", path |-> <<>>, amount |-> 0]

OkPath(path, amount) == [ok |-> TRUE, err |-> "", path |-> path, amount |-> amount]

\* The paths of at most three tokens.
AllPaths == UNION {[1 .. n -> Tokens] : n \in 2 .. 3}

\* The arguments best_execution passes to its closures.
ClosureArgs(amount, pools) == {amount} \X AllPaths \X {pools}

\* Iterator::max_by_key: the last of several equally maximum elements.
RECURSIVE MaxByKey(_, _, _)
MaxByKey(keys, i, best) ==
    IF i > Len(keys) THEN best
    ELSE MaxByKey(keys, i + 1, IF KeyLeq(keys[best], keys[i]) THEN i ELSE best)

KeysOf(path_cands, amount, comparison, pools) ==
    [k \in 1 .. Len(path_cands) |-> comparison[<<amount, path_cands[k], pools>>]]

\* resulting_amount(..).ok_or(NoLiquidity)?; Ok((best_path, resulting_amount))
ResultOf(best_path, resulting) ==
    IF ~IsSome(resulting) THEN NoLiquidity
    ELSE OkPath(best_path, Unwrap(resulting))

ResultFor(best_path, amount, resulting_amount, pools) ==
    ResultOf(best_path, resulting_amount[<<amount, best_path, pools>>])

PickBest(path_cands, amount, comparison, resulting_amount, pools) ==
    IF Len(path_cands) = 0 THEN NoLiquidity
    ELSE ResultFor(
            path_cands[MaxByKey(KeysOf(path_cands, amount, comparison, pools), 1, 1)],
            amount, resulting_amount, pools)

\* The closures comparison and resulting_amount are functions of
\* <<amount, path, pools>>.
best_execution(sell_token, buy_token, amount, comparison, resulting_amount, pools) ==
    PickBest(path_candidates(base_tokens, sell_token, buy_token), amount,
             comparison, resulting_amount, pools)

\* estimate.map(|estimate| estimate.value)
ValueOf(estimate) ==
    IF IsSome(estimate) THEN Some(Unwrap(estimate).value) ELSE None

\* Mutant: the transaction cost is added to the key instead of subtracted.
sell_path_comparison_plus(buy_estimate, gas_price, price) ==
    IF IsSome(price)
    THEN LET p == Unwrap(price)
             g == from_f64_lossy(gas_price)
             c == gas_cost(buy_estimate)
         IN  <<g[1] * c * p.den, buy_estimate.value * p.num + g[2] * c * p.den>>
    ELSE <<0, buy_estimate.value>>

\* path_comparison of best_execution_sell_order
sell_path_comparison(buy_estimate, gas_price, price) ==
    IF IsSome(price)
    THEN LET p == Unwrap(price)
             g == from_f64_lossy(gas_price)
             c == gas_cost(buy_estimate)
         IN  <<-(g[1] * c * p.den), buy_estimate.value * p.num - g[2] * c * p.den>>
    ELSE <<0, buy_estimate.value>>

\* estimate.map(path_comparison).unwrap_or_else(|| -U256::max_value())
SellKey(estimate, gas_price, price) ==
    IF IsSome(estimate)
    THEN sell_path_comparison(Unwrap(estimate), gas_price, price)
    ELSE WorstKey(price)

\* Mutant: an infeasible winning path is reported with amount zero.
best_execution_sell_order_unwrap(sell_token, buy_token, sell_amount, gas_price, buy_token_price_in_native_token, pools) ==
    best_execution(sell_token, buy_token, sell_amount,
        [a \in ClosureArgs(sell_amount, pools) |->
            SellKey(estimate_buy_amount(a[1], a[2], a[3]), gas_price,
                    buy_token_price_in_native_token)],
        [a \in ClosureArgs(sell_amount, pools) |->
            IF IsSome(estimate_buy_amount(a[1], a[2], a[3]))
            THEN ValueOf(estimate_buy_amount(a[1], a[2], a[3]))
            ELSE Some(0)],
        pools)

\* Mutant: the reported amount is computed by the buy-order estimator.
best_execution_sell_order_swapped(sell_token, buy_token, sell_amount, gas_price, buy_token_price_in_native_token, pools) ==
    best_execution(sell_token, buy_token, sell_amount,
        [a \in ClosureArgs(sell_amount, pools) |->
            SellKey(estimate_buy_amount(a[1], a[2], a[3]), gas_price,
                    buy_token_price_in_native_token)],
        [a \in ClosureArgs(sell_amount, pools) |->
            ValueOf(estimate_sell_amount(a[1], a[2], a[3]))],
        pools)

best_execution_sell_order(sell_token, buy_token, sell_amount, gas_price, buy_token_price_in_native_token, pools) ==
    best_execution(sell_token, buy_token, sell_amount,
        [a \in ClosureArgs(sell_amount, pools) |->
            SellKey(estimate_buy_amount(a[1], a[2], a[3]), gas_price,
                    buy_token_price_in_native_token)],
        [a \in ClosureArgs(sell_amount, pools) |->
            ValueOf(estimate_buy_amount(a[1], a[2], a[3]))],
        pools)

\* Mutant: the transaction cost enters the key without a price as well.
buy_path_comparison_gas_always(sell_estimate, gas_price, price) ==
    LET p == IF IsSome(price) THEN Unwrap(price) ELSE PriceOne
        g == from_f64_lossy(gas_price)
        c == gas_cost(sell_estimate)
    IN  <<-(g[1] * c * p.den),
          -(sell_estimate.value * p.num) - g[2] * c * p.den>>

\* path_comparison of best_execution_buy_order
buy_path_comparison(sell_estimate, gas_price, price) ==
    IF IsSome(price)
    THEN LET p == Unwrap(price)
             g == from_f64_lossy(gas_price)
             c == gas_cost(sell_estimate)
         IN  <<-(g[1] * c * p.den),
               -(sell_estimate.value * p.num) - g[2] * c * p.den>>
    ELSE <<0, -sell_estimate.value>>

BuyKey(estimate, gas_price, price) ==
    IF IsSome(estimate)
    THEN buy_path_comparison(Unwrap(estimate), gas_price, price)
    ELSE WorstKey(price)

\* Mutant: an infeasible winning path is reported with amount zero.
best_execution_buy_order_unwrap(sell_token, buy_token, buy_amount, gas_price, sell_token_price_in_native_token, pools) ==
    best_execution(sell_token, buy_token, buy_amount,
        [a \in ClosureArgs(buy_amount, pools) |->
            BuyKey(estimate_sell_amount(a[1], a[2], a[3]), gas_price,
                   sell_token_price_in_native_token)],
        [a \in ClosureArgs(buy_amount, pools) |->
            IF IsSome(estimate_sell_amount(a[1], a[2], a[3]))
            THEN ValueOf(estimate_sell_amount(a[1], a[2], a[3]))
            ELSE Some(0)],
        pools)

\* Mutant: the gas units of the path are added to the reported amount.
best_execution_buy_order_with_gas(sell_token, buy_token, buy_amount, gas_price, sell_token_price_in_native_token, pools) ==
    best_execution(sell_token, buy_token, buy_amount,
        [a \in ClosureArgs(buy_amount, pools) |->
            BuyKey(estimate_sell_amount(a[1], a[2], a[3]), gas_price,
                   sell_token_price_in_native_token)],
        [a \in ClosureArgs(buy_amount, pools) |->
            IF IsSome(estimate_sell_amount(a[1], a[2], a[3]))
            THEN Some(Unwrap(estimate_sell_amount(a[1], a[2], a[3])).value
                      + gas_cost(Unwrap(estimate_sell_amount(a[1], a[2], a[3]))))
            ELSE None],
        pools)

best_execution_buy_order(sell_token, buy_token, buy_amount, gas_price, sell_token_price_in_native_token, pools) ==
    best_execution(sell_token, buy_token, buy_amount,
        [a \in ClosureArgs(buy_amount, pools) |->
            BuyKey(estimate_sell_amount(a[1], a[2], a[3]), gas_price,
                   sell_token_price_in_native_token)],
        [a \in ClosureArgs(buy_amount, pools) |->
            ValueOf(estimate_sell_amount(a[1], a[2], a[3]))],
        pools)

\* One invocation of best_execution_sell_order or best_execution_buy_order:
\* its arguments.
Search(kind, sell_token, buy_token, amount, gas_price, price, pools) ==
    [kind |-> kind, sell_token |-> sell_token, buy_token |-> buy_token,
     amount |-> amount, gas_price |-> gas_price, price |-> price,
     pools |-> pools]

RunSearch(s) ==
    IF s.kind = "Sell"
    THEN best_execution_sell_order(s.sell_token, s.buy_token, s.amount,
                                   s.gas_price, s.price, s.pools)
    ELSE best_execution_buy_order(s.sell_token, s.buy_token, s.amount,
                                  s.gas_price, s.price, s.pools)

\* A price as a Result: amounts_to_price(..).ok_or(NoLiquidity)
PriceResult(price) == [ok |-> IsSome(price), price |-> price]

\* The price from the result of the sub-search: its error is propagated.
PriceFromSearch(r) ==
    IF ~r.ok THEN [ok |-> FALSE, price |-> None]
    ELSE PriceResult(amounts_to_price(native_token_price_estimation_amount,
                                      r.amount))

\* A price with the searches that were run for it.
PriceWith(p, searches) ==
    [ok |-> p.ok, price |-> p.price, searches |-> searches]

\* The price a sub-search yields.
PricedBy(s) == PriceWith(PriceFromSearch(RunSearch(s)), <<s>>)

\* Mutant: the sub-search takes gas costs into account, with price one.
NativeSearch_gas_aware(token, gas_price, pools) ==
    Search("Sell", native_token, token, native_token_price_estimation_amount,
           gas_price, Some(PriceOne), pools)

\* The sub-search for the price of a token: the reference amount of the
\* native token is sold for it, without a price (no gas costs).
NativeSearch(token, gas_price, pools) ==
    Search("Sell", native_token, token, native_token_price_estimation_amount,
           gas_price, None, pools)

\* Mutant: the native token is priced by a sub-search as well.
native_price_always_searched(token, gas_price, pools) ==
    PricedBy(NativeSearch(token, gas_price, pools))

\* The price of a token in the native token, as a Result: the native token
\* costs one, any other token is priced by selling the reference amount of
\* the native token for it without gas costs.
native_price(token, gas_price, pools) ==
    IF token = native_token
    THEN [ok |-> TRUE, price |-> Some(PriceOne), searches |-> <<>>]
    ELSE PricedBy(NativeSearch(token, gas_price, pools))

\* The price (Some) if gas costs are considered, None otherwise.
PriceIfGas(consider_gas_costs, token, gas_price, pools) ==
    IF consider_gas_costs THEN native_price(token, gas_price, pools)
    ELSE [ok |-> TRUE, price |-> None, searches |-> <<>>]

\* The main search of a query, with the price of the gas-aware mode or
\* without one.
MainSearch(q, price, pools, gas_price) ==
    Search(q.kind, q.sell_token, q.buy_token, q.in_amount, gas_price, price,
           pools)

BuyWithPrice(q, np, pools, gas_price) ==
    IF ~np.ok THEN NoLiquidity
    ELSE RunSearch(MainSearch(q, np.price, pools, gas_price))

SellWithPrice(q, np, pools, gas_price) ==
    IF ~np.ok THEN NoLiquidity
    ELSE RunSearch(MainSearch(q, np.price, pools, gas_price))

\* The token of the query whose price in the native token enters the keys.
PricedToken(q) == IF q.kind = "Buy" THEN q.sell_token ELSE q.buy_token

\* The searches of estimate_price_helper, in the order of their
\* invocation: those of the price, then the main search unless the price
\* has failed.
SearchesWith(q, np, pools, gas_price) ==
    np.searches
        \o (IF np.ok THEN <<MainSearch(q, np.price, pools, gas_price)>>
            ELSE <<>>)

SearchesOf(q, consider_gas_costs, pools, gas_price) ==
    IF q.sell_token = q.buy_token THEN <<>>
    ELSE SearchesWith(q,
            PriceIfGas(consider_gas_costs, PricedToken(q), gas_price, pools),
            pools, gas_price)

estimate_price_helper(q, consider_gas_costs, pools, gas_price) ==
    IF q.sell_token = q.buy_token THEN OkPath(<<>>, q.in_amount)
    ELSE IF q.kind = "Buy"
    THEN BuyWithPrice(q,
            PriceIfGas(consider_gas_costs, q.sell_token, gas_price, pools),
            pools, gas_price)
    ELSE SellWithPrice(q,
            PriceIfGas(consider_gas_costs, q.buy_token, gas_price, pools),
            pools, gas_price)

\* gas::ERC20_TRANSFER
ERC20_TRANSFER == 27513

\* gas::SETTLEMENT_SINGLE_TRADE
SETTLEMENT_SINGLE_TRADE == 97391

PER_HOP == ERC20_TRANSFER * 2 + 40000

\* Mutant: the empty path is charged like a path of one token.
estimate_gas_saturating(path_len) ==
    SETTLEMENT_SINGLE_TRADE + PER_HOP * (IF path_len > 1 THEN path_len - 1 ELSE 0)

\* Mutant: every token of the path is charged as a hop.
estimate_gas_per_token(path_len) ==
    IF path_len = 0 THEN 0
    ELSE SETTLEMENT_SINGLE_TRADE + PER_HOP * path_len

estimate_gas(path_len) ==
    IF path_len = 0 THEN 0
    ELSE SETTLEMENT_SINGLE_TRADE + PER_HOP * (path_len - 1)

\* ------------------------------------------------------------------------
\* BaselinePriceEstimator::estimate as a state machine
\* ------------------------------------------------------------------------

Pending == [st |-> "pending"]

NoQuery == [sell_token |-> 0, buy_token |-> 0, in_amount |-> 0, kind |-> "Sell"]

NoEstimate == [ok |-> FALSE, err |-> "", out_amount |-> 0, gas |-> 0]

ProtocolInternal ==
    [ok |-> FALSE, err |-> "ProtocolInternal", out_amount |-> 0, gas |-> 0]

\* The part of estimate() after try_join: lines 75-81.
EstimateOf(r) ==
        IF ~r.ok
        THEN [ok |-> FALSE, err |-> r.err, out_amount |-> 0, gas |-> 0]
        ELSE [ok |-> TRUE, err |-> "", out_amount |-> r.amount,
              gas |-> estimate_gas(Len(r.path))]

EstInit ==
    /\ native_token \in NativeTokens
    /\ base_tokens \in BaseTokenConfigs
    /\ est_pc = "idle"
    /\ query = NoQuery
    /\ gas_fut = Pending
    /\ pools_fut = Pending
    /\ est_path = <<>>
    /\ est_result = NoEstimate
    /\ est_searches = <<>>

\* A caller invokes estimate(query): both futures are created.
EstimateCall(q) ==
    /\ est_pc = "idle"
    /\ est_pc' = "fetching"
    /\ query' = q
    /\ gas_fut' = Pending
    /\ pools_fut' = Pending
    /\ est_path' = <<>>
    /\ est_result' = NoEstimate
    /\ est_searches' = <<>>
    /\ UNCHANGED <<native_token, base_tokens>>
    /\ UNCHANGED <<tf_vars, aux_vars>>

FinishWith(r) == est_path' = r.path /\ est_result' = EstimateOf(r)

\* try_join is ready with both values: the search runs synchronously.
Finish(pools, gas_price) ==
    /\ est_pc' = "done"
    /\ FinishWith(estimate_price_helper(query, TRUE, pools, gas_price))
    /\ est_searches' = SearchesOf(query, TRUE, pools, gas_price)

\* Mutant: the search does not wait for the pools and runs on an empty
\* snapshot.
GasPriceFetched_alone(g) ==
    /\ est_pc = "fetching"
    /\ gas_fut.st = "pending"
    /\ gas_fut' = [st |-> "ok", val |-> g]
    /\ IF pools_fut.st = "ok"
       THEN Finish(pools_fut.val, g)
       ELSE Finish([p \in TokenPairs |-> <<>>], g)
    /\ UNCHANGED <<native_token, base_tokens, query, pools_fut>>
    /\ UNCHANGED <<tf_vars, aux_vars>>

\* The gas estimator answers.
GasPriceFetched(g) ==
    /\ est_pc = "fetching"
    /\ gas_fut.st = "pending"
    /\ gas_fut' = [st |-> "ok", val |-> g]
    /\ IF pools_fut.st = "ok"
       THEN Finish(pools_fut.val, g)
       ELSE UNCHANGED <<est_pc, est_path, est_result, est_searches>>
    /\ UNCHANGED <<native_token, base_tokens, query, pools_fut>>
    /\ UNCHANGED <<tf_vars, aux_vars>>

\* The gas estimator fails: try_join returns the error at once.
GasPriceFailed ==
    /\ est_pc = "fetching"
    /\ gas_fut.st = "pending"
    /\ gas_fut' = [st |-> "err"]
    /\ est_pc' = "done"
    /\ est_result' = ProtocolInternal
    /\ UNCHANGED <<native_token, base_tokens, query, pools_fut, est_path,
                   est_searches>>
    /\ UNCHANGED <<tf_vars, aux_vars>>

\* The pool fetcher answers with a snapshot.
PoolsFetched(s) ==
    /\ est_pc = "fetching"
    /\ pools_fut.st = "pending"
    /\ pools_fut' = [st |-> "ok", val |-> s]
    /\ IF gas_fut.st = "ok"
       THEN Finish(s, gas_fut.val)
       ELSE UNCHANGED <<est_pc, est_path, est_result, est_searches>>
    /\ UNCHANGED <<native_token, base_tokens, query, gas_fut>>
    /\ UNCHANGED <<tf_vars, aux_vars>>

\* Mutant: a failed pool fetch is taken for a snapshot without pools.
PoolsFailed_as_empty ==
    /\ est_pc = "fetching"
    /\ pools_fut.st = "pending"
    /\ pools_fut' = [st |-> "err"]
    /\ IF gas_fut.st = "ok"
       THEN Finish([p \in TokenPairs |-> <<>>], gas_fut.val)
       ELSE est_pc' = "done" /\ est_result' = ProtocolInternal
            /\ UNCHANGED <<est_path, est_searches>>
    /\ UNCHANGED <<native_token, base_tokens, query, gas_fut>>
    /\ UNCHANGED <<tf_vars, aux_vars>>

\* The pool fetcher fails: try_join returns the error at once.
PoolsFailed ==
    /\ est_pc = "fetching"
    /\ pools_fut.st = "pending"
    /\ pools_fut' = [st |-> "err"]
    /\ est_pc' = "done"
    /\ est_result' = ProtocolInternal
    /\ UNCHANGED <<native_token, base_tokens, query, gas_fut, est_path,
                   est_searches>>
    /\ UNCHANGED <<tf_vars, aux_vars>>

\* The caller takes the result; the estimator can be called again.
EstimateReturn ==
    /\ est_pc = "done"
    /\ est_pc' = "idle"
    /\ query' = NoQuery
    /\ gas_fut' = Pending
    /\ pools_fut' = Pending
    /\ est_path' = <<>>
    /\ est_result' = NoEstimate
    /\ est_searches' = <<>>
    /\ UNCHANGED <<native_token, base_tokens>>
    /\ UNCHANGED <<tf_vars, aux_vars>>

EstNext ==
    \/ \E q \in Queries : EstimateCall(q)
    \/ \E g \in GasPrices : GasPriceFetched(g)
    \/ GasPriceFailed
    \/ \E s \in Snapshots : PoolsFetched(s)
    \/ PoolsFailed
    \/ EstimateReturn

\* ------------------------------------------------------------------------
\* OneInchTradeFinder: quotes through the request sharing (oneinch.rs)
\* ------------------------------------------------------------------------

Callers == 1 .. NumCallers

\* One shared future per caller is enough: a caller holds at most one.
Slots == 1 .. NumCallers

TfQueries ==
    {[sell_token |-> 1, buy_token |-> 2, in_amount |-> 100, kind |-> "Sell"],
     [sell_token |-> 1, buy_token |-> 2, in_amount |-> 100, kind |-> "Buy"]}

\* Inner::disabled_protocols: none, or one disabled protocol.
DisabledProtocolConfigs == {<<>>, <<"PMM1">>}

\* The protocol lists OneInchClient::get_liquidity_sources answers with.
LiquiditySources == {<<"UNISWAP_V2", "PMM1">>, <<"SUSHI", "PMM1">>}

RECURSIVE Without(_, _)
\* The protocols of a list that are not disabled, in order.
Without(protocols, disabled) ==
    IF protocols = <<>> THEN <<>>
    ELSE (IF \E k \in 1 .. Len(disabled) : disabled[k] = Head(protocols)
          THEN <<>> ELSE <<Head(protocols)>>)
         \o Without(Tail(protocols), disabled)

\* The values Cache::allowed_protocols can return.
ProtocolLists == {None, Some(<<"UNISWAP_V2">>), Some(<<"SUSHI">>)}

InternalQueries == [data : TfQueries, allowed_protocols : ProtocolLists]

InternalQuery(q, allowed_protocols) ==
    [data |-> q, allowed_protocols |-> allowed_protocols]

\* An answer of the API is a record: ok, or a OneInchError (Api with a
\* status code and a description, or Other with a message).
ApiOk(value) ==
    [ok |-> TRUE, value |-> value, type |-> "", status_code |-> 0,
     description |-> ""]

\* An error carries the default value of the type of the answer.
ApiErr(default, type, status_code, description) ==
    [ok |-> FALSE, value |-> default, type |-> type,
     status_code |-> status_code, description |-> description]

NoSellOrderQuote == [to_token_amount |-> 0, estimated_gas |-> 0]

\* The answers of OneInchClient::get_sell_order_quote.
SellOrderQuotes == {ApiOk([to_token_amount |-> 5, estimated_gas |-> 1000])}

QuoteErrors ==
    {ApiErr(NoSellOrderQuote, "Api", 429, "insufficient liquidity"),
     ApiErr(NoSellOrderQuote, "Api", 500, "insufficient liquidity"),
     ApiErr(NoSellOrderQuote, "Api", 500, "Internal Server Error")}

QuoteResponses == SellOrderQuotes \cup QuoteErrors

\* The answers of OneInchClient::get_liquidity_sources.
ProtocolResponses ==
    {ApiOk(l) : l \in LiquiditySources}
        \cup {ApiErr(<<>>, "Api", 429, "Too Many Requests")}

Spenders == {11, 12}

\* The answers of OneInchClient::get_spender.
SpenderResponses ==
    {ApiOk(a) : a \in Spenders} \cup {ApiErr(0, "Other", 0, "malformed JSON")}

\* The answers of OneInchClient::get_swap.
SwapResponses ==
    {ApiOk([to |-> 21]), ApiErr([to |-> 0], "Api", 500, "insufficient liquidity")}

\* gas::SETTLEMENT_OVERHEAD
SETTLEMENT_OVERHEAD == 106391

NoOutput ==
    [ok |-> FALSE, err |-> "", msg |-> "", out_amount |-> 0, gas_estimate |-> 0,
     spender |-> 0, target |-> 0]

TradeErr(err, msg) ==
    [ok |-> FALSE, err |-> err, msg |-> msg, out_amount |-> 0, gas_estimate |-> 0,
     spender |-> 0, target |-> 0]

OkQuote(out_amount, gas_estimate) ==
    [ok |-> TRUE, err |-> "", msg |-> "", out_amount |-> out_amount,
     gas_estimate |-> gas_estimate, spender |-> 0, target |-> 0]

\* Trade::swap: the amount and the gas of the quote, the spender to
\* approve and the target of the swap interaction.
OkTrade(quote, spender, swap) ==
    [ok |-> TRUE, err |-> "", msg |-> "", out_amount |-> quote.out_amount,
     gas_estimate |-> quote.gas_estimate, spender |-> spender,
     target |-> swap.to]

is_insuffucient_liquidity(err) ==
    err.type = "Api" /\ err.description = "insufficient liquidity"

\* Mutant: the liquidity signal is tested before the status code.
TradeErrorFrom_liquidity_first(err) ==
    IF is_insuffucient_liquidity(err) THEN TradeErr("NoLiquidity", "")
    ELSE IF err.type = "Api" /\ err.status_code = 429
    THEN TradeErr("RateLimited", "")
    ELSE TradeErr("Other", err.description)

\* impl From<OneInchError> for TradeError
TradeErrorFrom(err) ==
    IF err.type = "Api" /\ err.status_code = 429 THEN TradeErr("RateLimited", "")
    ELSE IF is_insuffucient_liquidity(err) THEN TradeErr("NoLiquidity", "")
    ELSE TradeErr("Other", err.description)

\* Inner::perform_quote, given the answer of the API.
perform_quote(response) ==
    IF response.ok
    THEN OkQuote(response.value.to_token_amount,
                 SETTLEMENT_OVERHEAD + response.value.estimated_gas)
    ELSE TradeErrorFrom(response)

\* ------------------------------------------------------------------------
\* Cache of the spender and of the liquidity sources (oneinch_api::Cache)
\* ------------------------------------------------------------------------

\* A cache entry is None or Some([value, at]): a value and the time of its
\* fetch.
EmptyCache == [protocols |-> None, spender |-> None]

\* Mutant: a stored value never expires.
get_cached_value_forever(entry, t) ==
    IF IsSome(entry) THEN Some(Unwrap(entry).value) ELSE None

\* The stored value if its age is at most MaxAge, None otherwise.
get_cached_value(entry, t) ==
    IF IsSome(entry) /\ t - Unwrap(entry).at <= MaxAge
    THEN Some(Unwrap(entry).value) ELSE None

\* Mutant: a refresh replaces the value and keeps the time of the entry.
update_keeps_time(entry, value, t) ==
    IF IsSome(entry) THEN Some([value |-> value, at |-> Unwrap(entry).at])
    ELSE Some([value |-> value, at |-> t])

\* The entry after a fetch: the value with the current time, written as a
\* whole.
update(entry, value, t) == Some([value |-> value, at |-> t])

\* ------------------------------------------------------------------------
\* OneInchTradeFinder: quotes and trades (oneinch.rs)
\* ------------------------------------------------------------------------

\* A future of try_join! in swap(): not created, pending, or ready. The
\* field requests counts the requests the future has sent to the API.
NoFuture == [st |-> "none", value |-> 0, err |-> NoOutput, requests |-> 0]

PendingFuture ==
    [st |-> "pending", value |-> 0, err |-> NoOutput, requests |-> 1]

\* A future that is ready without a request.
ReadyOk(value) == [st |-> "ok", value |-> value, err |-> NoOutput, requests |-> 0]

\* The answer of the API as the output of the future that requested it
\* (`.await?`).
ReadyFrom(response) ==
    IF response.ok
    THEN [st |-> "ok", value |-> response.value, err |-> NoOutput,
          requests |-> 1]
    ELSE [st |-> "err", value |-> 0, err |-> TradeErrorFrom(response),
          requests |-> 1]

NoKey == InternalQuery(NoQuery, None)

\* No answer of the API yet.
NoResponse == ApiErr(NoSellOrderQuote, "", 0, "")

\* A shared future: its state, its request, the answer it got from the API,
\* its output, and whether a caller dropped its clone while the future ran
\* for other callers.
FreeSlot ==
    [st |-> "free", key |-> NoKey, response |-> NoResponse, output |-> NoOutput,
     dropped |-> FALSE]

TfInit ==
    /\ disabled_protocols \in DisabledProtocolConfigs
    /\ cache = EmptyCache
    /\ now = 0
    /\ tf_pc = [c \in Callers |-> "idle"]
    /\ tf_op = [c \in Callers |-> "quote"]
    /\ tf_query = [c \in Callers |-> NoQuery]
    /\ tf_handle = [c \in Callers |-> 0]
    /\ tf_spender = [c \in Callers |-> NoFuture]
    /\ tf_swap = [c \in Callers |-> NoFuture]
    /\ tf_result = [c \in Callers |-> NoOutput]
    /\ in_flight = [k \in InternalQueries |-> 0]
    /\ shared = [i \in Slots |-> FreeSlot]

\* RequestSharing::shared_or_else finds the request in flight: the caller
\* gets a clone of the existing shared future.
Attach(c, key) ==
    /\ in_flight[key] # 0
    /\ tf_handle' = [tf_handle EXCEPT ![c] = in_flight[key]]
    /\ UNCHANGED <<in_flight, shared>>

\* Mutant: the lock of the map is held while a shared future runs, so a new
\* shared future waits for the running ones.
StartShared_serialized(c, key) ==
    \E i \in Slots :
        /\ \A j \in Slots : shared[j].st # "running"
        /\ shared[i].st = "free"
        /\ \A j \in Slots : shared[j].st = "free" => i <= j
        /\ shared' = [shared EXCEPT ![i] = [st |-> "running", key |-> key,
                                             response |-> NoResponse,
                                             output |-> NoOutput,
                                             dropped |-> FALSE]]
        /\ in_flight' = [in_flight EXCEPT ![key] = i]
        /\ tf_handle' = [tf_handle EXCEPT ![c] = i]

\* RequestSharing::shared_or_else does not find the request: a new shared
\* future is created and registered under the request.
StartShared(c, key) ==
    \E i \in Slots :
        /\ shared[i].st = "free"
        /\ \A j \in Slots : shared[j].st = "free" => i <= j
        /\ shared' = [shared EXCEPT ![i] = [st |-> "running", key |-> key,
                                             response |-> NoResponse,
                                             output |-> NoOutput,
                                             dropped |-> FALSE]]
        /\ in_flight' = [in_flight EXCEPT ![key] = i]
        /\ tf_handle' = [tf_handle EXCEPT ![c] = i]

shared_or_else(c, key) ==
    IF in_flight[key] # 0 THEN Attach(c, key) ELSE StartShared(c, key)

\* Mutant: the quote is performed without the request sharing.
shared_quote_unshared(c, q, allowed_protocols) ==
    StartShared(c, InternalQuery(q, allowed_protocols))

\* Mutant: the request is the Query without the allowed protocols.
shared_quote_by_query(c, q, allowed_protocols) ==
    shared_or_else(c, InternalQuery(q, None))

\* OneInchTradeFinder::shared_quote
shared_quote(c, q, allowed_protocols) ==
    shared_or_else(c, InternalQuery(q, allowed_protocols))

\* quote() after verify_query_and_get_protocols: the caller awaits the
\* shared quote.
Quote(c, q, allowed_protocols) ==
    /\ shared_quote(c, q, allowed_protocols)
    /\ tf_pc' = [tf_pc EXCEPT ![c] = "waiting"]
    /\ UNCHANGED <<tf_spender, tf_swap>>

\* Inner::spender at its first poll: the cached spender, or a pending
\* request to the API.
spender(entry, t) ==
    IF IsSome(get_cached_value(entry, t))
    THEN ReadyOk(Unwrap(get_cached_value(entry, t)))
    ELSE PendingFuture

\* Mutant: swap() performs a quote of its own instead of the shared one.
Swap_own_quote(c, q, allowed_protocols) ==
    /\ StartShared(c, InternalQuery(q, allowed_protocols))
    /\ tf_spender' = [tf_spender EXCEPT ![c] = spender(cache.spender, now)]
    /\ tf_swap' = [tf_swap EXCEPT ![c] = PendingFuture]
    /\ tf_pc' = [tf_pc EXCEPT ![c] = "joining"]

\* swap() after verify_query_and_get_protocols: the first poll of
\* try_join! creates the three futures; the quote and the swap are
\* requests to the API.
Swap(c, q, allowed_protocols) ==
    /\ shared_quote(c, q, allowed_protocols)
    /\ tf_spender' = [tf_spender EXCEPT ![c] = spender(cache.spender, now)]
    /\ tf_swap' = [tf_swap EXCEPT ![c] = PendingFuture]
    /\ tf_pc' = [tf_pc EXCEPT ![c] = "joining"]

Proceed(c, op, q, allowed_protocols) ==
    IF op = "quote" THEN Quote(c, q, allowed_protocols)
    ELSE Swap(c, q, allowed_protocols)

\* verify_query_and_get_protocols rejects a Buy query before anything else.
Reject(c) ==
    /\ tf_pc' = [tf_pc EXCEPT ![c] = "done"]
    /\ tf_result' = [tf_result EXCEPT
                        ![c] = TradeErr("UnsupportedOrderType", "buy order")]
    /\ UNCHANGED <<tf_handle, tf_spender, tf_swap, in_flight, shared>>

\* Mutant: the protocols are looked up before the order kind is tested.
Verify_protocols_first(c, op, q) ==
    IF disabled_protocols # <<>> /\ ~IsSome(get_cached_value(cache.protocols, now))
    THEN /\ tf_pc' = [tf_pc EXCEPT ![c] = "protocols"]
         /\ UNCHANGED <<tf_handle, tf_spender, tf_swap, tf_result, in_flight,
                        shared>>
    ELSE IF q.kind = "Buy" THEN Reject(c)
    ELSE /\ Proceed(c, op, q,
                    IF disabled_protocols = <<>> THEN None
                    ELSE Some(Without(Unwrap(get_cached_value(cache.protocols, now)),
                                      disabled_protocols)))
         /\ UNCHANGED tf_result

\* verify_query_and_get_protocols up to its first suspension: a Buy query
\* is rejected; without disabled protocols every protocol is allowed
\* (None); otherwise the liquidity sources come from the cache, or from a
\* request to the API if the cache has no fresh value.
Verify(c, op, q) ==
    IF q.kind = "Buy" THEN Reject(c)
    ELSE IF disabled_protocols = <<>>
    THEN Proceed(c, op, q, None) /\ UNCHANGED tf_result
    ELSE IF IsSome(get_cached_value(cache.protocols, now))
    THEN /\ Proceed(c, op, q,
                    Some(Without(Unwrap(get_cached_value(cache.protocols, now)),
                                 disabled_protocols)))
         /\ UNCHANGED tf_result
    ELSE /\ tf_pc' = [tf_pc EXCEPT ![c] = "protocols"]
         /\ UNCHANGED <<tf_handle, tf_spender, tf_swap, tf_result, in_flight,
                        shared>>

\* A caller invokes get_quote or get_trade.
Call(c, op, q) ==
    /\ tf_pc[c] = "idle"
    /\ tf_op' = [tf_op EXCEPT ![c] = op]
    /\ tf_query' = [tf_query EXCEPT ![c] = q]
    /\ Verify(c, op, q)
    /\ UNCHANGED <<cache, now, disabled_protocols>>
    /\ UNCHANGED <<est_vars, aux_vars>>

\* TradeFinding::get_quote
GetQuote(c, q) == Call(c, "quote", q)

\* TradeFinding::get_trade
GetTrade(c, q) == Call(c, "trade", q)

\* The API answers get_liquidity_sources: the list is stored in the cache
\* and the call goes on with the allowed protocols; an error ends the call.
ProtocolsFetched(c, response) ==
    /\ tf_pc[c] = "protocols"
    /\ IF response.ok
       THEN /\ cache' = [cache EXCEPT
                            !.protocols = update(cache.protocols, response.value, now)]
            /\ Proceed(c, tf_op[c], tf_query[c],
                       Some(Without(response.value, disabled_protocols)))
            /\ UNCHANGED tf_result
       ELSE /\ tf_pc' = [tf_pc EXCEPT ![c] = "done"]
            /\ tf_result' = [tf_result EXCEPT ![c] = TradeErrorFrom(response)]
            /\ UNCHANGED <<cache, tf_handle, tf_spender, tf_swap, in_flight,
                           shared>>
    /\ UNCHANGED <<tf_op, tf_query, now, disabled_protocols>>
    /\ UNCHANGED <<est_vars, aux_vars>>

\* Mutant: the entry of a completed request stays registered.
remove_entry_never(map, key) == map

\* RequestSharing: the entry of a completed request is removed.
remove_entry(map, key) == [map EXCEPT ![key] = 0]

\* The API answers the request of a shared future: perform_quote returns
\* and the request is no longer in flight.
QuoteCompleted(i, response) ==
    /\ shared[i].st = "running"
    /\ shared' = [shared EXCEPT ![i].st = "done",
                                 ![i].response = response,
                                 ![i].output = perform_quote(response)]
    /\ in_flight' = remove_entry(in_flight, shared[i].key)
    /\ UNCHANGED <<tf_pc, tf_op, tf_query, tf_handle, tf_spender, tf_swap,
                   tf_result, cache, now, disabled_protocols>>
    /\ UNCHANGED <<est_vars, aux_vars>>

\* The callers that hold a clone of shared future i.
Holders(i) == {d \in Callers : tf_handle[d] = i}

\* Caller c drops its clone of the shared future: the future is dropped
\* with its last clone, and a dropped future is no longer in flight; a
\* future with other clones goes on.
DropShared(c) ==
    /\ tf_handle' = [tf_handle EXCEPT ![c] = 0]
    /\ shared' = [i \in Slots |->
                    IF i = tf_handle[c] /\ Holders(i) = {c} THEN FreeSlot
                    ELSE IF i = tf_handle[c] /\ shared[i].st = "running"
                    THEN [shared[i] EXCEPT !.dropped = TRUE]
                    ELSE shared[i]]
    /\ in_flight' = [k \in InternalQueries |->
                    IF /\ in_flight[k] # 0
                       /\ in_flight[k] = tf_handle[c]
                       /\ Holders(in_flight[k]) = {c}
                    THEN 0 ELSE in_flight[k]]

\* Mutant: the trade is composed as soon as the quote is there.
try_join_quote_only(quote, spender_fut, swap_fut) ==
    IF quote.st = "done" /\ ~quote.output.ok THEN quote.output
    ELSE IF spender_fut.st = "err" THEN spender_fut.err
    ELSE IF swap_fut.st = "err" THEN swap_fut.err
    ELSE IF quote.st = "done"
    THEN OkTrade(quote.output, spender_fut.value, [to |-> 0])
    ELSE NoOutput

\* futures::try_join! polls the quote, the spender and the swap in this
\* order: the first error it meets is the output, the Trade is composed
\* once the three are ready, and NoOutput stands for Poll::Pending.
try_join(quote, spender_fut, swap_fut) ==
    IF quote.st = "done" /\ ~quote.output.ok THEN quote.output
    ELSE IF spender_fut.st = "err" THEN spender_fut.err
    ELSE IF swap_fut.st = "err" THEN swap_fut.err
    ELSE IF quote.st = "done" /\ spender_fut.st = "ok" /\ swap_fut.st = "ok"
    THEN OkTrade(quote.output, spender_fut.value, swap_fut.value)
    ELSE NoOutput

\* swap() is polled with the futures of the spender and of the swap in the
\* given states. When try_join! is ready its futures are dropped: a shared
\* quote that still runs loses this clone, and a request that is still
\* pending is never answered.
PollSwapWith(c, r, spender_fut, swap_fut) ==
    IF r = NoOutput
    THEN /\ tf_spender' = [tf_spender EXCEPT ![c] = spender_fut]
         /\ tf_swap' = [tf_swap EXCEPT ![c] = swap_fut]
         /\ UNCHANGED <<tf_pc, tf_result, tf_handle, shared, in_flight>>
    ELSE /\ tf_pc' = [tf_pc EXCEPT ![c] = "done"]
         /\ tf_result' = [tf_result EXCEPT ![c] = r]
         /\ tf_spender' = [tf_spender EXCEPT ![c] = NoFuture]
         /\ tf_swap' = [tf_swap EXCEPT ![c] = NoFuture]
         /\ IF shared[tf_handle[c]].st = "running" THEN DropShared(c)
            ELSE UNCHANGED <<tf_handle, shared, in_flight>>

PollSwap(c, spender_fut, swap_fut) ==
    PollSwapWith(c, try_join(shared[tf_handle[c]], spender_fut, swap_fut),
                 spender_fut, swap_fut)

\* The quote of the caller's shared future has failed: try_join! returns
\* at the quote and polls nothing else.
QuoteFailed(c) ==
    /\ shared[tf_handle[c]].st = "done"
    /\ ~shared[tf_handle[c]].output.ok

\* A caller is polled after its shared future has completed: get_quote
\* returns the output, get_trade goes on with try_join!.
QuoteReceived(c) ==
    /\ tf_pc[c] \in {"waiting", "joining"}
    /\ shared[tf_handle[c]].st = "done"
    /\ IF tf_pc[c] = "waiting"
       THEN /\ tf_pc' = [tf_pc EXCEPT ![c] = "done"]
            /\ tf_result' = [tf_result EXCEPT ![c] = shared[tf_handle[c]].output]
            /\ UNCHANGED <<tf_handle, tf_spender, tf_swap, in_flight, shared>>
       ELSE /\ try_join(shared[tf_handle[c]], tf_spender[c], tf_swap[c]) # NoOutput
            /\ PollSwap(c, tf_spender[c], tf_swap[c])
    /\ UNCHANGED <<tf_op, tf_query, cache, now, disabled_protocols>>
    /\ UNCHANGED <<est_vars, aux_vars>>

\* The API answers get_spender while swap() awaits try_join!: the spender
\* is stored in the cache with the current time and try_join! goes on.
SpenderFetched(c, response) ==
    /\ tf_pc[c] = "joining"
    /\ tf_spender[c].st = "pending"
    /\ ~QuoteFailed(c)
    /\ cache' = IF response.ok
                THEN [cache EXCEPT
                        !.spender = update(cache.spender, response.value, now)]
                ELSE cache
    /\ PollSwap(c, ReadyFrom(response), tf_swap[c])
    /\ UNCHANGED <<tf_op, tf_query, now, disabled_protocols>>
    /\ UNCHANGED <<est_vars, aux_vars>>

\* The API answers get_swap while swap() awaits try_join!.
SwapBuilt(c, response) ==
    /\ tf_pc[c] = "joining"
    /\ tf_swap[c].st = "pending"
    /\ ~QuoteFailed(c)
    /\ PollSwap(c, tf_spender[c], ReadyFrom(response))
    /\ UNCHANGED <<tf_op, tf_query, cache, now, disabled_protocols>>
    /\ UNCHANGED <<est_vars, aux_vars>>

\* The call returns: the caller takes the result and drops what it holds.
QuoteReturn(c) ==
    /\ tf_pc[c] = "done"
    /\ tf_pc' = [tf_pc EXCEPT ![c] = "idle"]
    /\ tf_op' = [tf_op EXCEPT ![c] = "quote"]
    /\ tf_query' = [tf_query EXCEPT ![c] = NoQuery]
    /\ tf_result' = [tf_result EXCEPT ![c] = NoOutput]
    /\ DropShared(c)
    /\ UNCHANGED <<tf_spender, tf_swap, cache, now, disabled_protocols>>
    /\ UNCHANGED <<est_vars, aux_vars>>

\* Mutant: a caller that stops waiting takes the shared future with it.
Cancel_aborts_shared(c) ==
    /\ tf_pc[c] \in {"protocols", "waiting", "joining"}
    /\ tf_pc' = [tf_pc EXCEPT ![c] = "idle"]
    /\ tf_op' = [tf_op EXCEPT ![c] = "quote"]
    /\ tf_query' = [tf_query EXCEPT ![c] = NoQuery]
    /\ tf_spender' = [tf_spender EXCEPT ![c] = NoFuture]
    /\ tf_swap' = [tf_swap EXCEPT ![c] = NoFuture]
    /\ tf_handle' = [tf_handle EXCEPT ![c] = 0]
    /\ shared' = [i \in Slots |->
                    IF i = tf_handle[c] /\ shared[i].st = "running"
                    THEN [shared[i] EXCEPT !.st = "done",
                                           !.output = TradeErr("Other", "cancelled")]
                    ELSE shared[i]]
    /\ in_flight' = [k \in InternalQueries |->
                    IF in_flight[k] # 0 /\ in_flight[k] = tf_handle[c]
                    THEN 0 ELSE in_flight[k]]
    /\ UNCHANGED <<tf_result, cache, now, disabled_protocols>>
    /\ UNCHANGED <<est_vars, aux_vars>>

\* The future of a call is dropped before it is ready (the caller stops
\* waiting): its own requests are dropped, and so is its clone of the
\* shared future.
Cancel(c) ==
    /\ tf_pc[c] \in {"protocols", "waiting", "joining"}
    /\ tf_pc' = [tf_pc EXCEPT ![c] = "idle"]
    /\ tf_op' = [tf_op EXCEPT ![c] = "quote"]
    /\ tf_query' = [tf_query EXCEPT ![c] = NoQuery]
    /\ tf_spender' = [tf_spender EXCEPT ![c] = NoFuture]
    /\ tf_swap' = [tf_swap EXCEPT ![c] = NoFuture]
    /\ DropShared(c)
    /\ UNCHANGED <<tf_result, cache, now, disabled_protocols>>
    /\ UNCHANGED <<est_vars, aux_vars>>

\* Time passes.
Tick ==
    /\ now < MaxTime
    /\ now' = now + 1
    /\ UNCHANGED <<tf_pc, tf_op, tf_query, tf_handle, tf_spender, tf_swap,
                   tf_result, in_flight, shared, cache, disabled_protocols>>
    /\ UNCHANGED <<est_vars, aux_vars>>

TfNext ==
    \/ \E c \in Callers, q \in TfQueries : GetQuote(c, q)
    \/ \E c \in Callers, q \in TfQueries : GetTrade(c, q)
    \/ \E c \in Callers, r \in ProtocolResponses : ProtocolsFetched(c, r)
    \/ \E i \in Slots, r \in QuoteResponses : QuoteCompleted(i, r)
    \/ \E c \in Callers : QuoteReceived(c)
    \/ \E c \in Callers, r \in SpenderResponses : SpenderFetched(c, r)
    \/ \E c \in Callers, r \in SwapResponses : SwapBuilt(c, r)
    \/ \E c \in Callers : QuoteReturn(c)
    \/ \E c \in Callers : Cancel(c)
    \/ Tick

\* ------------------------------------------------------------------------
\* Token graph: BaseTokens::path_candidates on its own
\* ------------------------------------------------------------------------

GraphTokens == 1 .. MaxGraphTokens

\* The lists of at most MaxBases distinct base tokens.
GraphBaseConfigs ==
    {b \in UNION {[1 .. n -> GraphTokens] : n \in 0 .. MaxBases} :
        \A i, j \in 1 .. Len(b) : i # j => b[i] # b[j]}

\* No call of path_candidates.
GraphIdle ==
    /\ g_pc = "idle" /\ g_bases = <<>> /\ g_sell = 0 /\ g_buy = 0
    /\ g_paths = <<>>

GraphInit ==
    /\ g_pc = "in"
    /\ g_bases \in GraphBaseConfigs
    /\ g_sell \in GraphTokens
    /\ g_buy \in GraphTokens \ {g_sell}
    /\ g_paths = <<>>

\* best_execution asks the token graph for the candidates of a pair.
PathCandidates ==
    /\ g_pc = "in"
    /\ g_pc' = "out"
    /\ g_paths' = path_candidates(g_bases, g_sell, g_buy)
    /\ UNCHANGED <<g_bases, g_sell, g_buy>>
    /\ UNCHANGED <<est_vars, tf_vars, e2e_vars, wait_vars>>

\* ------------------------------------------------------------------------
\* e2e setup: run() and NODE_MUTEX (crates/e2e/src/setup/mod.rs)
\* ------------------------------------------------------------------------

\* The tests of one test binary: each calls run() once, on its own thread.
Tests == 1 .. NumTests

E2eInit ==
    /\ mutex_owner = 0
    /\ mutex_poisoned = FALSE
    /\ t_pc = [t \in Tests |-> "start"]
    /\ t_result = [t \in Tests |-> "none"]
    /\ node_dirty = FALSE
    /\ db_dirty = FALSE

\* Mutant: the guard is not kept (let _ = NODE_MUTEX.lock()).
Lock_guard_dropped(t) ==
    /\ t_pc[t] = "start"
    /\ mutex_owner = 0
    /\ t_pc' = [t_pc EXCEPT ![t] = "setup"]
    /\ UNCHANGED <<mutex_owner, mutex_poisoned, t_result, node_dirty, db_dirty>>
    /\ UNCHANGED <<est_vars, tf_vars, graph_vars, wait_vars>>

\* let _lock = NODE_MUTEX.lock(): the thread blocks until the mutex is
\* free; the LockResult holds the guard whether the mutex is poisoned or
\* not, and _lock keeps it to the end of run().
Lock(t) ==
    /\ t_pc[t] = "start"
    /\ mutex_owner = 0
    /\ mutex_owner' = t
    /\ t_pc' = [t_pc EXCEPT ![t] = "setup"]
    /\ UNCHANGED <<mutex_poisoned, t_result, node_dirty, db_dirty>>
    /\ UNCHANGED <<est_vars, tf_vars, graph_vars, wait_vars>>

\* Resetter::new / Forker::new take the snapshot of the node, and
\* clear_database empties the database before the test.
Setup(t) ==
    /\ t_pc[t] = "setup"
    /\ t_pc' = [t_pc EXCEPT ![t] = "body"]
    /\ node_dirty' = FALSE
    /\ db_dirty' = FALSE
    /\ UNCHANGED <<mutex_owner, mutex_poisoned, t_result>>
    /\ UNCHANGED <<est_vars, tf_vars, graph_vars, wait_vars>>

\* AssertUnwindSafe(f(web3.clone())).catch_unwind().await yields Ok: the
\* test body returned, having changed the node and the database or not.
BodyReturns(t, node, db) ==
    /\ t_pc[t] = "body"
    /\ t_pc' = [t_pc EXCEPT ![t] = "reset"]
    /\ t_result' = [t_result EXCEPT ![t] = "ok"]
    /\ node_dirty' = node
    /\ db_dirty' = db
    /\ UNCHANGED <<mutex_owner, mutex_poisoned>>
    /\ UNCHANGED <<est_vars, tf_vars, graph_vars, wait_vars>>

\* Mutant: the panic of the body is not caught and unwinds run() at once.
BodyPanics_uncaught(t, node, db) ==
    /\ t_pc[t] = "body"
    /\ t_pc' = [t_pc EXCEPT ![t] = "panicked"]
    /\ t_result' = [t_result EXCEPT ![t] = "panic"]
    /\ node_dirty' = node
    /\ db_dirty' = db
    /\ mutex_owner' = 0
    /\ mutex_poisoned' = TRUE
    /\ UNCHANGED <<est_vars, tf_vars, graph_vars, wait_vars>>

\* catch_unwind yields Err: the test body panicked and the panic is kept
\* in result.
BodyPanics(t, node, db) ==
    /\ t_pc[t] = "body"
    /\ t_pc' = [t_pc EXCEPT ![t] = "reset"]
    /\ t_result' = [t_result EXCEPT ![t] = "panic"]
    /\ node_dirty' = node
    /\ db_dirty' = db
    /\ UNCHANGED <<mutex_owner, mutex_poisoned>>
    /\ UNCHANGED <<est_vars, tf_vars, graph_vars, wait_vars>>

\* A panic that catch_unwind does not catch ends the process, and every
\* test with it; nothing is cleaned up.
BodyAborts(t, node, db) ==
    /\ t_pc[t] = "body"
    /\ t_pc' = [u \in Tests |-> "aborted"]
    /\ node_dirty' = node
    /\ db_dirty' = db
    /\ UNCHANGED <<mutex_owner, mutex_poisoned, t_result>>
    /\ UNCHANGED <<est_vars, tf_vars, graph_vars, wait_vars>>

\* test_node.reset().await
Reset(t) ==
    /\ t_pc[t] = "reset"
    /\ t_pc' = [t_pc EXCEPT ![t] = "clear"]
    /\ node_dirty' = FALSE
    /\ UNCHANGED <<mutex_owner, mutex_poisoned, t_result, db_dirty>>
    /\ UNCHANGED <<est_vars, tf_vars, graph_vars, wait_vars>>

\* services::clear_database().await after the test
ClearDatabase(t) ==
    /\ t_pc[t] = "clear"
    /\ t_pc' = [t_pc EXCEPT ![t] = "exit"]
    /\ db_dirty' = FALSE
    /\ UNCHANGED <<mutex_owner, mutex_poisoned, t_result, node_dirty>>
    /\ UNCHANGED <<est_vars, tf_vars, graph_vars, wait_vars>>

\* run() returns: _lock is dropped and the mutex is free.
Return(t) ==
    /\ t_pc[t] = "exit"
    /\ t_result[t] = "ok"
    /\ t_pc' = [t_pc EXCEPT ![t] = "passed"]
    /\ mutex_owner' = 0
    /\ UNCHANGED <<mutex_poisoned, t_result, node_dirty, db_dirty>>
    /\ UNCHANGED <<est_vars, tf_vars, graph_vars, wait_vars>>

\* panic::resume_unwind(err): _lock is dropped by the unwinding thread,
\* which frees the mutex and poisons it.
ResumeUnwind(t) ==
    /\ t_pc[t] = "exit"
    /\ t_result[t] = "panic"
    /\ t_pc' = [t_pc EXCEPT ![t] = "panicked"]
    /\ mutex_owner' = 0
    /\ mutex_poisoned' = TRUE
    /\ UNCHANGED <<t_result, node_dirty, db_dirty>>
    /\ UNCHANGED <<est_vars, tf_vars, graph_vars, wait_vars>>

E2eNext ==
    \/ \E t \in Tests : Lock(t)
    \/ \E t \in Tests : Setup(t)
    \/ \E t \in Tests, node \in BOOLEAN, db \in BOOLEAN : BodyReturns(t, node, db)
    \/ \E t \in Tests, node \in BOOLEAN, db \in BOOLEAN : BodyPanics(t, node, db)
    \/ \E t \in Tests, node \in BOOLEAN, db \in BOOLEAN : BodyAborts(t, node, db)
    \/ \E t \in Tests : Reset(t)
    \/ \E t \in Tests : ClearDatabase(t)
    \/ \E t \in Tests : Return(t)
    \/ \E t \in Tests : ResumeUnwind(t)

\* ------------------------------------------------------------------------
\* e2e setup: wait_for_condition (crates/e2e/src/setup/mod.rs)
\* ------------------------------------------------------------------------
\* Time is counted in units of the 200 ms the loop sleeps.

\* The timeouts of the calls.
Timeouts == 0 .. MaxTimeout

\* What one evaluation of the condition, or one sleep, can take beyond its
\* minimum: the scheduler may resume the task late.
Delays == 0 .. MaxDelay

\* let start = Instant::now(): the call begins with nothing evaluated.
WaitInit ==
    /\ w_pc = "condition"
    /\ w_timeout \in Timeouts
    /\ w_elapsed = 0
    /\ w_evals = 0
    /\ w_last = FALSE
    /\ w_result = "none"

\* while !condition().await: one evaluation, which takes d and yields v;
\* on true the loop ends and the function returns Ok(()).
Condition(v, d) ==
    /\ w_pc = "condition"
    /\ w_evals' = w_evals + 1
    /\ w_last' = v
    /\ w_elapsed' = w_elapsed + d
    /\ w_pc' = IF v THEN "done" ELSE "sleep"
    /\ w_result' = IF v THEN "ok" ELSE "none"
    /\ UNCHANGED w_timeout
    /\ UNCHANGED <<est_vars, tf_vars, graph_vars, e2e_vars>>

\* Mutant: the loop is left on the timeout and Ok(()) follows it.
Sleep_breaks(d) ==
    /\ w_pc = "sleep"
    /\ w_elapsed' = w_elapsed + 1 + d
    /\ w_pc' = IF w_elapsed' > w_timeout THEN "done" ELSE "condition"
    /\ w_result' = IF w_elapsed' > w_timeout THEN "ok" ELSE "none"
    /\ UNCHANGED <<w_timeout, w_evals, w_last>>
    /\ UNCHANGED <<est_vars, tf_vars, graph_vars, e2e_vars>>

\* tokio::time::sleep(200 ms).await; if start.elapsed() > timeout
\* { return Err(anyhow!("timeout")) }
Sleep(d) ==
    /\ w_pc = "sleep"
    /\ w_elapsed' = w_elapsed + 1 + d
    /\ w_pc' = IF w_elapsed' > w_timeout THEN "done" ELSE "condition"
    /\ w_result' = IF w_elapsed' > w_timeout THEN "timeout" ELSE "none"
    /\ UNCHANGED <<w_timeout, w_evals, w_last>>
    /\ UNCHANGED <<est_vars, tf_vars, graph_vars, e2e_vars>>

WaitNext ==
    \/ \E v \in BOOLEAN, d \in Delays : Condition(v, d)
    \/ \E d \in Delays : Sleep(d)

\* No call of wait_for_condition.
WaitIdle ==
    /\ w_pc = "idle" /\ w_timeout = 0 /\ w_elapsed = 0 /\ w_evals = 0
    /\ w_last = FALSE /\ w_result = "none"

\* The estimator is checked with one configuration of the trade finder.
Init ==
    /\ EstInit
    /\ TfInit /\ disabled_protocols = <<>>
    /\ GraphIdle /\ E2eInit /\ WaitIdle

Next == EstNext

\* The price estimator alone.
Spec == Init /\ [][Next]_vars

\* The trade finder alone.
InitTf ==
    /\ EstInit /\ native_token = 2
    /\ TfInit
    /\ GraphIdle /\ E2eInit /\ WaitIdle

SpecTf == InitTf /\ [][TfNext]_vars

\* The token graph alone.
InitGraph ==
    /\ EstInit /\ native_token = 2
    /\ TfInit /\ disabled_protocols = <<>>
    /\ GraphInit /\ E2eInit /\ WaitIdle

SpecGraph == InitGraph /\ [][PathCandidates]_vars

InitWait ==
    /\ EstInit /\ native_token = 2
    /\ TfInit /\ disabled_protocols = <<>>
    /\ GraphIdle /\ E2eInit /\ WaitInit

\* One call of wait_for_condition: every evaluation of the condition
\* returns and the sleep ends, which is what the fairness says.
SpecWait == InitWait /\ [][WaitNext]_vars /\ WF_vars(WaitNext)

\* The tests of the e2e setup alone.
SpecE2e == Init /\ [][E2eNext]_vars

\* ------------------------------------------------------------------------
\* Properties of the estimator
\* ------------------------------------------------------------------------

\* estimate() has returned after both fetches succeeded.
EstDone == est_pc = "done" /\ gas_fut.st = "ok" /\ pools_fut.st = "ok"

\* The amount estimator of an order kind applied to a path.
AmountOf(kind, amount, path, pools) ==
    IF kind = "Sell" THEN estimate_buy_amount(amount, path, pools)
    ELSE estimate_sell_amount(amount, path, pools)

Feasible(kind, amount, path, pools) == IsSome(AmountOf(kind, amount, path, pools))

Candidates(q) == path_candidates(base_tokens, q.sell_token, q.buy_token)

SomeFeasible(q, pools) ==
    \E k \in 1 .. Len(Candidates(q)) :
        Feasible(q.kind, q.in_amount, Candidates(q)[k], pools)

\* C1: identity law. A query with sell_token = buy_token yields the empty
\* path, the input amount and zero gas, for either kind, every snapshot,
\* every gas price and with gas costs considered or not.
C1_IdentityLaw ==
    (EstDone /\ query.sell_token = query.buy_token) =>
        /\ est_result.ok
        /\ est_path = <<>>
        /\ est_result.out_amount = query.in_amount
        /\ est_result.gas = 0
        /\ \A cg \in BOOLEAN :
              estimate_price_helper(query, cg, pools_fut.val, gas_fut.val)
                = OkPath(<<>>, query.in_amount)

C1_Witness ==
    /\ EstDone
    /\ query.sell_token = query.buy_token
    /\ query.kind = "Buy"
    /\ query.in_amount = 100
    /\ gas_fut.val = HugeGas
    /\ SumLen(pools_fut.val, TokenPairs) = 0
    /\ est_result.ok /\ est_result.out_amount = 100 /\ est_result.gas = 0

\* The pools the amount estimator uses on a path all have two non-zero
\* reserves.
UsesOnlyLiquidPools(kind, amount, path, pools) ==
    LET e == AmountOf(kind, amount, path, pools)
    IN  /\ IsSome(e)
        /\ Len(Unwrap(e).path) = Len(path) - 1
        /\ \A i \in 1 .. Len(path) - 1 :
              LET list == pools[{path[i], path[i + 1]}]
                  pool == list[Unwrap(e).path[i]]
              IN  pool[1] # 0 /\ pool[2] # 0

\* C4: the winning path of every successful estimate is feasible hop by
\* hop: every hop is priced on a pool of the snapshot whose reserves are
\* both non-zero, for both order kinds.
C4_WinningPathFeasible ==
    (EstDone /\ est_result.ok /\ query.sell_token # query.buy_token) =>
        /\ Len(est_path) >= 2
        /\ UsesOnlyLiquidPools(query.kind, query.in_amount, est_path,
                               pools_fut.val)

\* A successful estimate over a pair that also has a pool with a zero
\* reserve, which is listed after the liquid pool.
C4_Witness ==
    /\ EstDone /\ est_result.ok
    /\ query.kind = "Buy"
    /\ query.sell_token # query.buy_token
    /\ est_path = <<query.sell_token, query.buy_token>>
    /\ \E k \in 1 .. Len(pools_fut.val[{query.sell_token, query.buy_token}]) :
          pools_fut.val[{query.sell_token, query.buy_token}][k][1] = 0

\* C5: if every candidate path of a query with sell_token # buy_token is
\* infeasible, estimate() fails with NoLiquidity, for both kinds.
C5_AllInfeasibleFails ==
    (/\ EstDone
     /\ query.sell_token # query.buy_token
     /\ ~SomeFeasible(query, pools_fut.val)) =>
        ~est_result.ok /\ est_result.err = "NoLiquidity"

\* The only pool of the pair has a zero reserve; the price of the sell
\* token in the native token is available.
C5_Witness ==
    /\ EstDone
    /\ query.kind = "Buy"
    /\ query.sell_token # query.buy_token
    /\ pools_fut.val[{query.sell_token, query.buy_token}] = << <<0, 1000>> >>
    /\ native_price(query.sell_token, gas_fut.val, pools_fut.val).ok
    /\ ~SomeFeasible(query, pools_fut.val)
    /\ ~est_result.ok

\* C6: whenever both fetches succeed and some candidate path between the
\* tokens of the query is feasible, the gas-aware estimate succeeds.
C6_FeasibleSucceeds ==
    (/\ EstDone
     /\ query.sell_token # query.buy_token
     /\ SomeFeasible(query, pools_fut.val)) => est_result.ok

\* SETTLEMENT_BASE + per_hop_cost * max(hops - 1, 0) for hops tokens.
GasFormula(hops) ==
    SETTLEMENT_SINGLE_TRADE + PER_HOP * (IF hops > 1 THEN hops - 1 ELSE 0)

\* C7 as stated: the gas of every result follows the formula.
C7_GasFormulaEveryResult ==
    (EstDone /\ est_result.ok) => est_result.gas = GasFormula(Len(est_path))

\* C7: the gas of every result with a non-empty winning path is
\* SETTLEMENT_BASE + per_hop_cost * (tokens - 1), the gas of the empty
\* path is zero, and a path of two tokens costs less than one of three.
C7_GasFormulaNonEmptyPath ==
    (EstDone /\ est_result.ok) =>
        /\ Len(est_path) > 0 => est_result.gas = GasFormula(Len(est_path))
        /\ Len(est_path) = 0 => est_result.gas = 0
        /\ Len(est_path) \in {0, 2, 3}
        /\ estimate_gas(2) < estimate_gas(3)

C7_Witness ==
    /\ EstDone /\ est_result.ok
    /\ Len(est_path) = 3
    /\ est_result.gas = SETTLEMENT_SINGLE_TRADE + 2 * PER_HOP

\* The number of tokens of the winning path at a gas price; 0 on failure.
PathLenAt(q, pools, g) ==
    LET r == estimate_price_helper(q, TRUE, pools, g)
    IN  IF r.ok THEN Len(r.path) ELSE 0

\* C8: gas monotonicity. For the query and the snapshot of a successful
\* estimate, the search at any gas price that is at least the estimate's
\* gas price, if it succeeds, chooses a path with at most as many hops as
\* the estimate's path (lowering the gas price never removes hops).
C8_GasMonotone ==
    (EstDone /\ est_result.ok) =>
        \A g2 \in GasPrices :
            g2 >= gas_fut.val =>
                LET r == estimate_price_helper(query, TRUE, pools_fut.val, g2)
                IN  r.ok => Len(est_path) >= Len(r.path)

\* A Buy estimate that took the direct path although a cheaper gas price
\* selects the path through the base token.
C8_Witness ==
    /\ EstDone /\ est_result.ok
    /\ query.kind = "Buy"
    /\ Len(est_path) = 2
    /\ \E g1 \in GasPrices :
          /\ g1 < gas_fut.val
          /\ PathLenAt(query, pools_fut.val, g1) = 3

\* The amount is the largest output a single pool of the pair pays.
IsMaxOverPools(amount, q, pools) ==
    LET list == pools[{q.sell_token, q.buy_token}]
        outs == {get_amount_out(list[k], q.buy_token, q.in_amount, q.sell_token)
                    : k \in 1 .. Len(list)}
    IN  /\ Some(amount) \in outs
        /\ \A o \in outs : IsSome(o) => Unwrap(o) <= amount

SeveralPools(q, pools) ==
    /\ q.sell_token # q.buy_token
    /\ Len(pools[{q.sell_token, q.buy_token}]) >= 2

\* C9 as stated: a Sell estimate over a pair with several pools returns the
\* largest single-pool output.
C9_BestPoolEverySell ==
    (/\ EstDone /\ est_result.ok
     /\ query.kind = "Sell"
     /\ SeveralPools(query, pools_fut.val)) =>
        IsMaxOverPools(est_result.out_amount, query, pools_fut.val)

\* C9: a Sell estimate over a pair with several pools whose winning path is
\* the direct path returns the largest single-pool output for the queried
\* direction.
C9_BestPoolDirectPath ==
    (/\ EstDone /\ est_result.ok
     /\ query.kind = "Sell"
     /\ SeveralPools(query, pools_fut.val)
     /\ est_path = <<query.sell_token, query.buy_token>>) =>
        IsMaxOverPools(est_result.out_amount, query, pools_fut.val)

\* The direct path wins although the path through the base token is
\* feasible, and the reverse direction is served best by the other pool.
C9_Witness ==
    /\ EstDone /\ est_result.ok
    /\ query.kind = "Sell"
    /\ SeveralPools(query, pools_fut.val)
    /\ est_path = <<query.sell_token, query.buy_token>>
    /\ Len(Candidates(query)) = 2
    /\ Feasible("Sell", query.in_amount, Candidates(query)[2], pools_fut.val)
    /\ LET fwd == BestPoolOut(query.in_amount, query.sell_token,
                              query.buy_token, pools_fut.val)
           rev == BestPoolOut(query.in_amount, query.buy_token,
                              query.sell_token, pools_fut.val)
       IN  Unwrap(fwd)[1] # Unwrap(rev)[1]

\* C10: the amount of a successful estimate is the amount the amount
\* estimator computes for the winning path (output for Sell, required
\* input for Buy), whatever the gas price of the estimate.
C10_AmountIsGasFree ==
    (EstDone /\ est_result.ok /\ query.sell_token # query.buy_token) =>
          AmountOf(query.kind, query.in_amount, est_path, pools_fut.val)
            = Some([value |-> est_result.out_amount,
                    path |-> Unwrap(AmountOf(query.kind, query.in_amount,
                                             est_path, pools_fut.val)).path])

\* The gas price decided the winner: the reported input of a Buy estimate
\* differs from the one reported at a lower gas price.
C10_Witness ==
    /\ EstDone /\ est_result.ok
    /\ query.kind = "Buy"
    /\ query.sell_token # query.buy_token
    /\ \E g \in GasPrices :
          LET r == estimate_price_helper(query, TRUE, pools_fut.val, g)
          IN  r.ok /\ g < gas_fut.val /\ r.amount # est_result.out_amount

\* The search of the estimate's query without gas costs, at a gas price.
GasFree(g) == estimate_price_helper(query, FALSE, pools_fut.val, g)

\* The amount of candidate k is not better than the amount a.
NotBetter(q, k, a, pools) ==
    LET e == AmountOf(q.kind, q.in_amount, Candidates(q)[k], pools)
    IN  IsSome(e) =>
            IF q.kind = "Sell" THEN Unwrap(e).value <= a ELSE Unwrap(e).value >= a

\* C11: without gas costs the key is the raw amount. The search succeeds
\* exactly if a candidate path is feasible, its amount is the largest
\* output (Sell) or the smallest input (Buy) of the candidate paths, and
\* the result is the same at every gas price.
C11_RawAmountKey ==
    (EstDone /\ query.sell_token # query.buy_token) =>
        /\ \A g \in GasPrices : GasFree(g) = GasFree(gas_fut.val)
        /\ GasFree(gas_fut.val).ok <=> SomeFeasible(query, pools_fut.val)
        /\ GasFree(gas_fut.val).ok =>
              /\ AmountOf(query.kind, query.in_amount, GasFree(gas_fut.val).path,
                          pools_fut.val) # None
              /\ \A k \in 1 .. Len(Candidates(query)) :
                    NotBetter(query, k, GasFree(gas_fut.val).amount,
                              pools_fut.val)

\* A successful estimate whose path and amount differ from the ones of
\* the search without gas costs.
C11_Witness ==
    /\ EstDone /\ est_result.ok
    /\ query.sell_token # query.buy_token
    /\ GasFree(gas_fut.val).ok
    /\ GasFree(gas_fut.val).path # est_path
    /\ GasFree(gas_fut.val).amount # est_result.out_amount

\* A fetch of the estimate has failed.
FetchFailed == gas_fut.st = "err" \/ pools_fut.st = "err"

\* C20: estimate returns ProtocolInternal exactly if the gas price fetch
\* or the pool fetch failed; it then returns at once, with no amount, no
\* gas and without a path search (no path was selected).
C20_FetchFailureAborts ==
    /\ FetchFailed =>
          /\ est_pc = "done"
          /\ est_result = ProtocolInternal
          /\ est_path = <<>>
    /\ est_result.err = "ProtocolInternal" => FetchFailed

\* The pool fetch failed after the gas price had arrived, for a query
\* between two different tokens.
C20_Witness ==
    /\ est_pc = "done"
    /\ gas_fut.st = "ok"
    /\ pools_fut.st = "err"
    /\ query.sell_token # query.buy_token
    /\ est_result = ProtocolInternal

\* ------------------------------------------------------------------------
\* Properties of the request sharing
\* ------------------------------------------------------------------------

\* The shared futures that are in flight for a request.
Running(key) == {i \in Slots : shared[i].st = "running" /\ shared[i].key = key}

KeyOf(c) == shared[tf_handle[c]].key

\* Caller c executes shared_quote in this step.
SharesQuote(c) ==
    tf_pc[c] \in {"idle", "protocols"} /\ tf_pc'[c] \in {"waiting", "joining"}

\* In every state: a request has at most one computation in flight, every
\* caller that awaits a request holds the computation of that request, and
\* every caller that received an output received the one of the
\* computation it holds.
C2_OneComputation ==
    /\ \A k \in InternalQueries : Cardinality(Running(k)) <= 1
    /\ \A c \in Callers :
          tf_pc[c] \in {"waiting", "joining"} =>
            /\ tf_handle[c] \in Slots
            /\ shared[tf_handle[c]].st # "free"
            /\ KeyOf(c).data = tf_query[c]
    /\ \A c \in Callers :
          (tf_pc[c] = "done" /\ tf_handle[c] # 0) =>
            /\ shared[tf_handle[c]].st = "done"
            /\ tf_op[c] = "quote" => tf_result[c] = shared[tf_handle[c]].output

\* In every step: a caller whose request is in flight joins that
\* computation and starts no other one.
C2_JoinStartsNothing ==
    \A c \in Callers :
        (SharesQuote(c) /\ Running(KeyOf(c)') # {}) =>
            /\ tf_handle'[c] \in Running(KeyOf(c)')
            /\ shared' = shared

\* C2: coalescing law. Requests with equal keys issued while a matching
\* computation is in flight share that one computation, all of their
\* callers observe its outcome, and joining executes nothing.
C2_CoalescingLaw == []C2_OneComputation /\ [][C2_JoinStartsNothing]_vars

\* Two callers hold the same computation and both received its error.
C2_Witness ==
    /\ tf_pc[1] = "done" /\ tf_pc[2] = "done"
    /\ tf_op[1] = "quote" /\ tf_op[2] = "quote"
    /\ tf_handle[1] # 0
    /\ tf_handle[1] = tf_handle[2]
    /\ tf_result[1] = tf_result[2]
    /\ tf_result[1].err = "RateLimited"

\* In every step: the computation a caller is given by shared_quote is in
\* flight afterwards, and it is a new one unless a computation of the
\* request was in flight before the step.
C3_FreshAfterCompletion ==
    \A c \in Callers :
        SharesQuote(c) =>
            /\ shared'[tf_handle'[c]].st = "running"
            /\ shared'[tf_handle'[c]].output = NoOutput
            /\ Running(KeyOf(c)') = {} => shared[tf_handle'[c]].st = "free"

\* In every state: only computations in flight are registered.
C3_OnlyInFlightRegistered ==
    \A k \in InternalQueries :
        in_flight[k] # 0 => in_flight[k] \in Running(k)

\* C3: coalescer entries live only for the in-flight window. Once a shared
\* computation has completed, the next request with its key starts a new
\* computation; no completed outcome is handed to a later request.
C3_NoReplay == []C3_OnlyInFlightRegistered /\ [][C3_FreshAfterCompletion]_vars

\* A retry after a failure: caller 1 still holds the failed computation
\* while caller 2 awaits a new computation of the same request.
C3_Witness ==
    /\ tf_pc[1] = "done" /\ tf_handle[1] # 0 /\ ~tf_result[1].ok
    /\ tf_pc[2] = "waiting"
    /\ tf_handle[2] # tf_handle[1]
    /\ KeyOf(2) = KeyOf(1)
    /\ shared[tf_handle[2]].st = "running"

\* ------------------------------------------------------------------------
\* Properties of the cache
\* ------------------------------------------------------------------------

\* The entry holds a value whose age is at most MaxAge.
Fresh(entry) == entry # None /\ now - entry[1].at <= MaxAge

\* Caller c polls Inner::spender for the first time in this step.
CallsSpender(c) == tf_pc[c] \in {"idle", "protocols"} /\ tf_pc'[c] = "joining"

\* The liquidity sources are asked for in this step, by caller c.
CallsProtocols(c) ==
    /\ tf_pc[c] = "idle" /\ tf_pc'[c] # "idle"
    /\ tf_query'[c].kind = "Sell"
    /\ disabled_protocols # <<>>

\* A call on a fresh entry returns the stored value, sends no request and
\* leaves the entry alone.
C12_HitReturnsStored ==
    \A c \in Callers :
        /\ (CallsSpender(c) /\ Fresh(cache.spender)) =>
              /\ tf_spender'[c].st = "ok"
              /\ tf_spender'[c].value = cache.spender[1].value
              /\ tf_spender'[c].requests = 0
              /\ cache'.spender = cache.spender
        /\ (CallsProtocols(c) /\ Fresh(cache.protocols)) =>
              /\ tf_pc'[c] \in {"waiting", "joining"}
              /\ shared'[tf_handle'[c]].key.allowed_protocols
                    = Some(Without(cache.protocols[1].value, disabled_protocols))
              /\ cache' = cache

\* A call on an entry that is empty or too old sends one request; its
\* answer is stored with the current time and is the value of the call,
\* which sends no other request.
C12_MissFetchesOnce ==
    \A c \in Callers :
        /\ (CallsSpender(c) /\ ~Fresh(cache.spender)) =>
              /\ tf_spender'[c].st = "pending"
              /\ tf_spender'[c].requests = 1
              /\ cache'.spender = cache.spender
        /\ (tf_spender[c].st = "pending" /\ tf_spender'[c].st = "ok") =>
              /\ tf_spender'[c].requests = 1
              /\ cache'.spender
                    = Some([value |-> tf_spender'[c].value, at |-> now])
        /\ (tf_spender[c].st = "pending" /\ tf_pc'[c] = "done"
               /\ tf_result'[c].ok) =>
              cache'.spender = Some([value |-> tf_result'[c].spender, at |-> now])
        /\ tf_spender[c].st = "ok" =>
              tf_spender'[c] \in {tf_spender[c], NoFuture}
        /\ (CallsProtocols(c) /\ ~Fresh(cache.protocols)) =>
              tf_pc'[c] = "protocols" /\ cache' = cache
        /\ (tf_pc[c] = "protocols" /\ tf_pc'[c] \in {"waiting", "joining"}) =>
              /\ cache'.protocols # None
              /\ cache'.protocols[1].at = now
              /\ shared'[tf_handle'[c]].key.allowed_protocols
                    = Some(Without(cache'.protocols[1].value, disabled_protocols))

\* C12: cache law. A get-or-refresh call made while the age of the stored
\* value is at most the maximum age returns the stored value without a
\* fetch; a call made on an empty or older entry fetches exactly once,
\* stores the result with the current time and returns it.
C12_CacheLaw == [][C12_HitReturnsStored /\ C12_MissFetchesOnce]_vars

\* Caller 1 got the spender from the cache without a request; later the
\* entry expired and caller 2 fetched another spender, which is stored
\* with the current time.
C12_Witness ==
    /\ tf_spender[1].st = "ok" /\ tf_spender[1].requests = 0
    /\ tf_spender[2].st = "ok" /\ tf_spender[2].requests = 1
    /\ tf_spender[1].value # tf_spender[2].value
    /\ now > MaxAge
    /\ cache.spender = Some([value |-> tf_spender[2].value, at |-> now])

\* An entry is empty or a whole pair of a fetched value and a time that
\* has been reached.
WholeEntry(entry, values) ==
    entry = None
        \/ \E v \in values, t \in 0 .. now : entry = Some([value |-> v, at |-> t])

\* In every state: both entries are whole, and the spender a caller holds
\* or got in its Trade is one that a fetch returned.
C13_EntriesWhole ==
    /\ WholeEntry(cache.spender, Spenders)
    /\ WholeEntry(cache.protocols, LiquiditySources)
    /\ \A c \in Callers :
          /\ tf_spender[c].st = "ok" => tf_spender[c].value \in Spenders
          /\ (tf_pc[c] = "done" /\ tf_op[c] = "trade" /\ tf_result[c].ok) =>
                tf_result[c].spender \in Spenders

\* Caller c has the spender v after the step.
GotSpender(c, v) ==
    \/ tf_spender'[c].st = "ok" /\ tf_spender'[c].value = v
    \/ tf_pc'[c] = "done" /\ tf_result'[c].ok /\ tf_result'[c].spender = v

\* In every step: an entry changes only by the store of one fetch that was
\* pending, to the pair of the fetched value and the current time, and the
\* caller of that fetch gets this value.
C13_StoreIsOneFetch ==
    /\ cache'.spender # cache.spender =>
          \E c \in Callers, v \in Spenders :
              /\ tf_spender[c].st = "pending"
              /\ cache'.spender = Some([value |-> v, at |-> now])
              /\ GotSpender(c, v)
    /\ cache'.protocols # cache.protocols =>
          \E c \in Callers, l \in LiquiditySources :
              /\ tf_pc[c] = "protocols"
              /\ cache'.protocols = Some([value |-> l, at |-> now])
              /\ tf_pc'[c] \in {"waiting", "joining"}
              /\ shared'[tf_handle'[c]].key.allowed_protocols
                    = Some(Without(l, disabled_protocols))

\* C13: under every interleaving of get-or-refresh calls an entry holds
\* nothing or a whole (value, time) pair written by one fetch; concurrent
\* refreshes each fetch, the last store wins, and every caller gets a
\* value that one fetch returned.
C13_AtomicEntries == []C13_EntriesWhole /\ [][C13_StoreIsOneFetch]_vars

\* Two refreshes ran at the same time and fetched different spenders: each
\* caller has its own, the entry holds the one of caller 2.
C13_Witness ==
    /\ tf_spender[1].st = "ok" /\ tf_spender[1].requests = 1
    /\ tf_spender[2].st = "ok" /\ tf_spender[2].requests = 1
    /\ tf_spender[1].value # tf_spender[2].value
    /\ now = 0
    /\ cache.spender = Some([value |-> tf_spender[2].value, at |-> 0])

\* ------------------------------------------------------------------------
\* Properties of the trade finder
\* ------------------------------------------------------------------------

\* Caller c invokes get_quote or get_trade with a Buy query in this step.
CallsWithBuy(c) ==
    tf_pc[c] = "idle" /\ tf_pc'[c] # "idle" /\ tf_query'[c].kind = "Buy"

\* In every step: a call with a Buy query is done at once with
\* UnsupportedOrderType, has sent no request and has changed neither the
\* cache nor the request sharing.
C14_RejectedAtOnce ==
    \A c \in Callers :
        CallsWithBuy(c) =>
            /\ tf_pc'[c] = "done"
            /\ tf_result'[c].err = "UnsupportedOrderType"
            /\ ~tf_result'[c].ok
            /\ tf_handle'[c] = 0
            /\ tf_spender'[c].requests = 0
            /\ tf_swap'[c].requests = 0
            /\ cache' = cache
            /\ in_flight' = in_flight
            /\ shared' = shared

\* In every state: no call with a Buy query waits for an answer of the API.
C14_NoRequestForBuy ==
    \A c \in Callers :
        tf_query[c].kind = "Buy" =>
            /\ tf_pc[c] \in {"idle", "done"}
            /\ tf_handle[c] = 0
            /\ tf_spender[c] = NoFuture
            /\ tf_swap[c] = NoFuture

\* C14: get_quote and get_trade reject every Buy query with
\* UnsupportedOrderType before any request to the API: no protocol list,
\* quote, spender or swap is asked for, and the cache and the request
\* sharing stay as they are.
C14_BuyRejected == []C14_NoRequestForBuy /\ [][C14_RejectedAtOnce]_vars

\* get_trade of a Buy query was rejected while protocols are disabled and
\* the cache has no protocol list, and get_quote of another caller was
\* rejected too.
C14_Witness ==
    /\ disabled_protocols # <<>>
    /\ cache.protocols = None
    /\ tf_pc[1] = "done" /\ tf_op[1] = "trade" /\ tf_query[1].kind = "Buy"
    /\ tf_result[1] = TradeErr("UnsupportedOrderType", "buy order")
    /\ tf_pc[2] = "done" /\ tf_op[2] = "quote" /\ tf_query[2].kind = "Buy"
    /\ tf_result[2] = TradeErr("UnsupportedOrderType", "buy order")

\* An error of the API with the status of a throttled request.
IsThrottled(e) == e.type = "Api" /\ e.status_code = 429

\* The error out is the mapping of the error e with the three cases read
\* one by one: status 429 gives RateLimited, the liquidity signal gives
\* NoLiquidity, every other error gives Other with its message.
MapsCaseByCase(e, out) ==
    /\ IsThrottled(e) => out = TradeErr("RateLimited", "")
    /\ is_insuffucient_liquidity(e) => out = TradeErr("NoLiquidity", "")
    /\ (~IsThrottled(e) /\ ~is_insuffucient_liquidity(e)) =>
          out = TradeErr("Other", e.description)

\* The error out is the mapping of the error e with the status tested
\* first: status 429 gives RateLimited, the liquidity signal with another
\* status gives NoLiquidity, every other error gives Other with its
\* message.
MapsStatusFirst(e, out) ==
    /\ IsThrottled(e) => out = TradeErr("RateLimited", "")
    /\ (is_insuffucient_liquidity(e) /\ ~IsThrottled(e)) =>
          out = TradeErr("NoLiquidity", "")
    /\ (~IsThrottled(e) /\ ~is_insuffucient_liquidity(e)) =>
          out = TradeErr("Other", e.description)

\* The errors a call of the trade finder can end with.
TradeErrors ==
    {TradeErr("UnsupportedOrderType", "buy order"), TradeErr("RateLimited", ""),
     TradeErr("NoLiquidity", ""), TradeErr("Other", "Internal Server Error"),
     TradeErr("Other", "malformed JSON")}

\* Every result of a call is a success or one of the errors of the
\* mapping, and the errors of the other requests are mapped in the same
\* way as the ones of a quote.
OutputsAreMapped ==
    /\ \A c \in Callers :
          (tf_pc[c] = "done" /\ ~tf_result[c].ok) => tf_result[c] \in TradeErrors
    /\ \A e \in ProtocolResponses :
          ~e.ok => MapsStatusFirst(e, TradeErrorFrom(e))
    /\ \A e \in SpenderResponses : ~e.ok => MapsStatusFirst(e, TradeErrorFrom(e))
    /\ \A e \in SwapResponses : ~e.ok => MapsStatusFirst(e, TradeErrorFrom(e))

\* A shared quote that the API answered with an error.
QuoteErred(i) == shared[i].st = "done" /\ ~shared[i].response.ok

\* C15 as stated: every error of the API maps to exactly one of
\* RateLimited (status 429), NoLiquidity (liquidity signal) and Other with
\* the original message (every other error).
C15_MappingCaseByCase ==
    /\ \A i \in Slots :
          QuoteErred(i) => MapsCaseByCase(shared[i].response, shared[i].output)
    /\ OutputsAreMapped

\* C15, amended: the mapping is total and deterministic with the status
\* tested first: status 429 maps to RateLimited whatever the description,
\* the liquidity signal with any other status maps to NoLiquidity, and
\* every other error maps to Other with the original message.
C15_MappingStatusFirst ==
    /\ \A i \in Slots :
          QuoteErred(i) => MapsStatusFirst(shared[i].response, shared[i].output)
    /\ OutputsAreMapped

\* One call ended with NoLiquidity and another with Other and the message
\* of the API; the quote of the first was answered with an error.
C15_Witness ==
    /\ tf_pc[1] = "done" /\ tf_result[1] = TradeErr("NoLiquidity", "")
    /\ tf_handle[1] # 0
    /\ QuoteErred(tf_handle[1])
    /\ tf_pc[2] = "done" /\ tf_result[2] = TradeErr("Other", "malformed JSON")

\* ------------------------------------------------------------------------
\* C16: a Trade is composed from the three steps of swap(), all or nothing
\* ------------------------------------------------------------------------

\* get_trade of caller c returns in this step.
TradeReturns(c) ==
    tf_op[c] = "trade" /\ tf_pc[c] = "joining" /\ tf_pc'[c] = "done"

\* The mapped errors of the spender lookup and of the swap construction.
SpenderErrors == {TradeErrorFrom(r) : r \in {x \in SpenderResponses : ~x.ok}}

SwapErrors == {TradeErrorFrom(r) : r \in {x \in SwapResponses : ~x.ok}}

\* The Trade out is composed of a successful quote, of a spender that was
\* ready or is answered (and cached) in this step, and of a swap that was
\* ready or is answered in this step.
ComposedOfAllThree(c, out) ==
    /\ tf_handle[c] # 0
    /\ shared[tf_handle[c]].st = "done"
    /\ shared[tf_handle[c]].output.ok
    /\ out.out_amount = shared[tf_handle[c]].output.out_amount
    /\ out.gas_estimate = shared[tf_handle[c]].output.gas_estimate
    /\ out.spender \in Spenders
    /\ \/ tf_spender[c].st = "ok" /\ tf_spender[c].value = out.spender
       \/ /\ tf_spender[c].st = "pending"
          /\ tf_swap[c].st = "ok"
          /\ cache'.spender = Some([value |-> out.spender, at |-> now])
    /\ out.target \in {r.value.to : r \in {x \in SwapResponses : x.ok}}
    /\ \/ tf_swap[c].st = "ok" /\ tf_swap[c].value.to = out.target
       \/ tf_swap[c].st = "pending" /\ tf_spender[c].st = "ok"

\* The error out is the mapped error of one step that failed, and carries
\* nothing of the other steps.
ErrorOfOneStep(c, out) ==
    /\ out.out_amount = 0 /\ out.gas_estimate = 0
    /\ out.spender = 0 /\ out.target = 0
    /\ \/ QuoteFailed(c) /\ out = shared[tf_handle[c]].output
       \/ ~QuoteFailed(c) /\ tf_spender[c].st = "pending" /\ out \in SpenderErrors
       \/ ~QuoteFailed(c) /\ tf_swap[c].st = "pending" /\ out \in SwapErrors

C16_AllOrNothing ==
    \A c \in Callers :
        TradeReturns(c) =>
            IF tf_result'[c].ok THEN ComposedOfAllThree(c, tf_result'[c])
            ELSE ErrorOfOneStep(c, tf_result'[c])

\* swap() starts the quote, the spender lookup and the swap construction
\* together: while get_trade waits, the shared quote is held and neither of
\* the two other futures is missing or failed.
C16_StartedTogether ==
    \A c \in Callers :
        tf_pc[c] = "joining" =>
            /\ tf_op[c] = "trade"
            /\ tf_handle[c] # 0
            /\ tf_spender[c].st \in {"pending", "ok"}
            /\ tf_swap[c].st \in {"pending", "ok"}

\* C16: get_trade returns a Trade exactly when the quote, the spender
\* lookup and the swap construction have all succeeded; the three are
\* started together with no order among them, and when one of them fails
\* get_trade returns the mapped TradeError of that step and no Trade made
\* of partial results.
C16_TradeIffAllThree == []C16_StartedTogether /\ [][C16_AllOrNothing]_vars

\* Caller 1 has got a Trade and caller 2, sharing the same successful
\* quote, the error of its spender lookup.
C16_Witness ==
    /\ tf_op[1] = "trade" /\ tf_pc[1] = "done" /\ tf_result[1].ok
    /\ tf_result[1].target # 0 /\ tf_result[1].spender \in Spenders
    /\ tf_op[2] = "trade" /\ tf_pc[2] = "done"
    /\ tf_result[2] \in SpenderErrors
    /\ tf_handle[1] = tf_handle[2]

\* ------------------------------------------------------------------------
\* C17: get_quote and get_trade for the same request share one quote
\* ------------------------------------------------------------------------

\* Caller c waits in get_quote and caller d in get_trade, both for a quote
\* that is in flight.
BothInFlight(c, d) ==
    /\ tf_op[c] = "quote" /\ tf_pc[c] = "waiting"
    /\ tf_op[d] = "trade" /\ tf_pc[d] = "joining"
    /\ shared[tf_handle[c]].st = "running"
    /\ shared[tf_handle[d]].st = "running"

C17_OneRequest ==
    \A c, d \in Callers :
        BothInFlight(c, d) /\ KeyOf(c) = KeyOf(d) =>
            /\ tf_handle[c] = tf_handle[d]
            /\ Cardinality(Running(KeyOf(c))) = 1

\* get_quote of caller c and get_trade of caller d have returned from the
\* same shared quote.
BothReturned(c, d) ==
    /\ tf_op[c] = "quote" /\ tf_pc[c] = "done"
    /\ tf_op[d] = "trade" /\ tf_pc[d] = "done"
    /\ tf_handle[c] # 0 /\ tf_handle[c] = tf_handle[d]

C17_BothGetQuote ==
    \A c, d \in Callers :
        BothReturned(c, d) =>
            /\ tf_result[c] = shared[tf_handle[c]].output
            /\ tf_result[d].ok =>
                /\ tf_result[c].ok
                /\ tf_result[d].out_amount = tf_result[c].out_amount
                /\ tf_result[d].gas_estimate = tf_result[c].gas_estimate
            /\ tf_result[c].ok =>
                tf_result[d].ok \/ tf_result[d] \in SpenderErrors \cup SwapErrors

\* C17: a get_quote and a get_trade that wait at the same time for the same
\* Sell query with the same allowed protocols hold the same shared quote,
\* the only sell-order-quote request in flight for it, and both return with
\* the amount and the gas of that quote.
C17_QuoteAndTradeShare == C17_OneRequest /\ C17_BothGetQuote

\* Both calls have returned Ok from one shared quote.
C17_Witness ==
    /\ BothReturned(1, 2)
    /\ tf_result[1].ok /\ tf_result[2].ok
    /\ tf_result[2].out_amount = tf_result[1].out_amount
    /\ tf_result[2].gas_estimate > SETTLEMENT_OVERHEAD

\* ------------------------------------------------------------------------
\* C18: requests are coalesced by the whole InternalQuery
\* ------------------------------------------------------------------------

\* The protocols a call that passes verify_query_and_get_protocols is
\* allowed to use: all of them (None) without disabled protocols, otherwise
\* the liquidity sources of the cache entry, just read or just stored,
\* without the disabled ones.
AllowedAfterVerify(entry) ==
    IF disabled_protocols = <<>> THEN None
    ELSE Some(Without(Unwrap(entry).value, disabled_protocols))

\* A call that takes a shared quote in this step takes the one of its own
\* InternalQuery: an existing one is joined only if it runs for that very
\* request.
C18_JoinsEqualKey ==
    \A c \in Callers :
        SharesQuote(c) =>
            /\ tf_handle'[c] # 0
            /\ shared'[tf_handle'[c]].st = "running"
            /\ shared'[tf_handle'[c]].key =
                  InternalQuery(tf_query'[c], AllowedAfterVerify(cache'.protocols))
            /\ shared[tf_handle'[c]].st # "free" =>
                  /\ shared[tf_handle'[c]].st = "running"
                  /\ shared[tf_handle'[c]].key = shared'[tf_handle'[c]].key

\* A shared quote keeps its request as long as it exists.
C18_KeyKept ==
    \A i \in Slots :
        shared[i].st # "free" /\ shared'[i].st # "free" =>
            shared'[i].key = shared[i].key

\* The callers of one shared quote asked for the Query of its request.
C18_HoldersAskedForKey ==
    \A c \in Callers :
        tf_handle[c] # 0 =>
            /\ shared[tf_handle[c]].st # "free"
            /\ KeyOf(c).data = tf_query[c]

\* C18: two quote requests are coalesced only if their whole InternalQuery
\* keys are equal; requests with the same Query and different lists of
\* allowed protocols never share a computation or an outcome.
C18_WholeKey ==
    []C18_HoldersAskedForKey /\ [][C18_JoinsEqualKey /\ C18_KeyKept]_vars

\* Two calls with the same Query wait for two quotes in flight, whose
\* requests differ in the allowed protocols only.
C18_Witness ==
    /\ tf_pc[1] \in {"waiting", "joining"}
    /\ tf_pc[2] \in {"waiting", "joining"}
    /\ tf_query[1] = tf_query[2]
    /\ tf_handle[1] # tf_handle[2]
    /\ shared[tf_handle[1]].st = "running"
    /\ shared[tf_handle[2]].st = "running"
    /\ KeyOf(1).allowed_protocols # KeyOf(2).allowed_protocols

\* ------------------------------------------------------------------------
\* C19: a caller that stops waiting does not cancel the shared quote
\* ------------------------------------------------------------------------

\* Caller c stops waiting for its call in this step.
StopsWaiting(c) == tf_pc[c] \in {"waiting", "joining"} /\ tf_pc'[c] = "idle"

\* The other callers of the shared quote of caller c.
Others(c) == Holders(tf_handle[c]) \ {c}

\* The shared quote and its other callers are as they were, and the quote
\* is still in flight if it was.
C19_SharedGoesOn ==
    \A c \in Callers :
        StopsWaiting(c) /\ Others(c) # {} =>
            /\ shared'[tf_handle[c]].st = shared[tf_handle[c]].st
            /\ shared'[tf_handle[c]].key = shared[tf_handle[c]].key
            /\ shared'[tf_handle[c]].response = shared[tf_handle[c]].response
            /\ shared'[tf_handle[c]].output = shared[tf_handle[c]].output
            /\ in_flight' = in_flight
            /\ \A d \in Others(c) :
                /\ tf_handle'[d] = tf_handle[c]
                /\ tf_pc'[d] = tf_pc[d]
                /\ tf_result'[d] = tf_result[d]

\* A shared quote that a caller has left ends only with an answer of the
\* API, and its output is what perform_quote makes of that answer.
C19_CompletesWithAnswer ==
    \A i \in Slots :
        shared[i].dropped =>
            /\ shared[i].st \in {"running", "done"}
            /\ shared[i].st = "done" =>
                /\ shared[i].response \in QuoteResponses
                /\ shared[i].output = perform_quote(shared[i].response)

\* A get_quote that returns from a shared quote that another caller has
\* left returns the output of that quote.
C19_RemainingReceive ==
    \A d \in Callers :
        /\ tf_pc[d] = "waiting" /\ tf_pc'[d] = "done"
        /\ shared[tf_handle[d]].dropped
        => /\ shared[tf_handle[d]].st = "done"
           /\ tf_result'[d] = shared[tf_handle[d]].output

\* C19: when one of several callers attached to a shared computation in
\* flight stops waiting, the computation is not cancelled: it goes on,
\* completes with the answer of the API, and the callers still attached
\* receive its outcome.
C19_CancelKeepsShared ==
    []C19_CompletesWithAnswer /\ [][C19_SharedGoesOn /\ C19_RemainingReceive]_vars

\* Caller 1 has left the shared quote and is idle; caller 2 stayed and has
\* received the quote.
C19_Witness ==
    /\ tf_pc[1] = "idle"
    /\ tf_pc[2] = "done" /\ tf_op[2] = "quote"
    /\ tf_handle[2] # 0
    /\ shared[tf_handle[2]].dropped
    /\ tf_result[2].ok
    /\ tf_result[2] = shared[tf_handle[2]].output

\* ------------------------------------------------------------------------
\* C21: the candidates of the token graph
\* ------------------------------------------------------------------------

\* The base tokens that are not an end point of the pair.
InnerBases == {g_bases[i] : i \in 1 .. Len(g_bases)} \ {g_sell, g_buy}

\* The position of a base token in the configured list.
BasePos(t) == CHOOSE i \in 1 .. Len(g_bases) : g_bases[i] = t

\* C21: for sell # buy the token graph returns the direct path first and
\* then one path of two hops for every configured base token that is not
\* an end point, in configured order: 1 + |base tokens \ {sell, buy}|
\* candidates, each from sell to buy.
C21_CandidateSet ==
    g_pc = "out" =>
        /\ Len(g_paths) = 1 + Cardinality(InnerBases)
        /\ g_paths[1] = <<g_sell, g_buy>>
        /\ \A k \in 1 .. Len(g_paths) :
              /\ g_paths[k][1] = g_sell
              /\ g_paths[k][Len(g_paths[k])] = g_buy
        /\ \A k \in 2 .. Len(g_paths) :
              /\ Len(g_paths[k]) = 3
              /\ g_paths[k][2] \in InnerBases
        /\ \A j, k \in 2 .. Len(g_paths) :
              j < k => BasePos(g_paths[j][2]) < BasePos(g_paths[k][2])

\* Two base tokens give two paths of two hops in the order of the list,
\* which is not the order of the tokens.
C21_Witness ==
    /\ g_pc = "out"
    /\ Len(g_bases) = 2
    /\ g_bases[1] > g_bases[2]
    /\ Len(g_paths) = 3
    /\ g_paths[2][2] = g_bases[1]
    /\ g_paths[3][2] = g_bases[2]

\* ------------------------------------------------------------------------
\* C25: the key of an infeasible candidate
\* ------------------------------------------------------------------------

\* The key the comparison closure gives to a candidate path.
CandKey(kind, amount, path, pools, g, price) ==
    IF kind = "Sell"
    THEN SellKey(estimate_buy_amount(amount, path, pools), g, price)
    ELSE BuyKey(estimate_sell_amount(amount, path, pools), g, price)

\* No infeasible candidate of the query has a greater key than a feasible
\* one.
InfeasibleIsWorst(q, pools, g, price) ==
    \A j, k \in 1 .. Len(Candidates(q)) :
        /\ ~Feasible(q.kind, q.in_amount, Candidates(q)[j], pools)
        /\ Feasible(q.kind, q.in_amount, Candidates(q)[k], pools)
        => KeyLeq(CandKey(q.kind, q.in_amount, Candidates(q)[j], pools, g, price),
                  CandKey(q.kind, q.in_amount, Candidates(q)[k], pools, g, price))

\* With the price of the gas-aware search, if there is one.
InfeasibleIsWorstWith(q, pools, g, np) ==
    np.ok => InfeasibleIsWorst(q, pools, g, np.price)

\* C25: in the sell and in the buy search, with and without gas costs, the
\* key of an infeasible candidate is no greater than the key of any
\* feasible candidate, for every snapshot, amount, gas price and price of
\* the native token.
C25_InfeasibleKeyIsWorst ==
    (EstDone /\ query.sell_token # query.buy_token) =>
        /\ InfeasibleIsWorst(query, pools_fut.val, gas_fut.val, None)
        /\ InfeasibleIsWorstWith(query, pools_fut.val, gas_fut.val,
              native_price(PricedToken(query), gas_fut.val, pools_fut.val))

\* ------------------------------------------------------------------------
\* C26: the candidate with the maximum key, the first one on ties
\* ------------------------------------------------------------------------

\* The keys of the candidates of the query in the main search.
MainKeys(q, pools, g, price) ==
    [k \in 1 .. Len(Candidates(q)) |->
        CandKey(q.kind, q.in_amount, Candidates(q)[k], pools, g, price)]

\* Position k holds a maximum key and no earlier position does.
FirstMax(keys, k) ==
    /\ \A j \in 1 .. Len(keys) : KeyLeq(keys[j], keys[k])
    /\ \A j \in 1 .. k - 1 : ~KeyLeq(keys[k], keys[j])

\* The path of a successful estimate is the first candidate with a maximum
\* key.
FirstMaxSelected(q, keys) ==
    \E k \in 1 .. Len(keys) : FirstMax(keys, k) /\ est_path = Candidates(q)[k]

FirstMaxSelectedWith(q, pools, g, np) ==
    np.ok => FirstMaxSelected(q, MainKeys(q, pools, g, np.price))

\* C26: the search selects a candidate with the maximum comparison key,
\* and of several candidates with equal maximum keys the first-enumerated
\* one.
C26_FirstMaxKeyWins ==
    (EstDone /\ est_result.ok /\ query.sell_token # query.buy_token) =>
        FirstMaxSelectedWith(query, pools_fut.val, gas_fut.val,
            native_price(PricedToken(query), gas_fut.val, pools_fut.val))

\* ------------------------------------------------------------------------
\* C27: at most two searches for one estimate
\* ------------------------------------------------------------------------

\* A search as the Query it answers.
QueryOf(s) ==
    [sell_token |-> s.sell_token, buy_token |-> s.buy_token,
     in_amount |-> s.amount, kind |-> s.kind]

\* A search without a price runs without gas costs and starts no search of
\* its own: it is all that estimate_price_helper does for its query with
\* consider_gas_costs = false.
StartsNoSearch(s) ==
    /\ s.price = None
    /\ SearchesOf(QueryOf(s), FALSE, s.pools, s.gas_price) = <<s>>

\* The search prices a token in the native token.
IsPricing(s, token) ==
    /\ s.kind = "Sell"
    /\ s.sell_token = native_token
    /\ s.buy_token = token
    /\ s.amount = native_token_price_estimation_amount

\* C27: the sub-search for the price of the native token runs without gas
\* costs and starts no further sub-search, so one estimate runs at most
\* two searches, the second inside no other, and ends.
C27_AtMostTwoSearches ==
    EstDone =>
        /\ Len(est_searches) <= 2
        /\ Len(est_searches) = 2 =>
              /\ IsPricing(est_searches[1], PricedToken(query))
              /\ StartsNoSearch(est_searches[1])
              /\ est_searches[2] = MainSearch(query, est_searches[2].price,
                                              pools_fut.val, gas_fut.val)
              /\ IsSome(est_searches[2].price)
        /\ Len(est_searches) = 1 =>
              \/ /\ IsPricing(est_searches[1], PricedToken(query))
                 /\ StartsNoSearch(est_searches[1])
                 /\ ~est_result.ok
              \/ /\ PricedToken(query) = native_token
                 /\ est_searches[1] = MainSearch(query, Some(PriceOne),
                                                 pools_fut.val, gas_fut.val)
        /\ Len(est_searches) = 0 => query.sell_token = query.buy_token

\* A buy estimate that ran the sub-search and then the main search.
C27_Witness ==
    /\ EstDone /\ est_result.ok
    /\ query.kind = "Buy"
    /\ Len(est_searches) = 2
    /\ est_searches[1].price = None
    /\ est_searches[2].price # Some(PriceOne)

\* ------------------------------------------------------------------------
\* C30: sell_token # buy_token in every invocation of best_execution
\* ------------------------------------------------------------------------

\* debug_assert!(sell_token != buy_token) in best_execution.
AssertionHolds(s) == s.sell_token # s.buy_token

\* C30: the assertion sell_token != buy_token of best_execution holds in
\* every search an estimate runs, the sub-search for the native price
\* included, for every query, kind and native token.
C30_SearchTokensDiffer ==
    \A i \in 1 .. Len(est_searches) : AssertionHolds(est_searches[i])

\* The buy token of a sell query is the native token: no sub-search, and
\* the main search is between different tokens.
C30_Witness ==
    /\ EstDone
    /\ query.kind = "Sell"
    /\ query.buy_token = native_token
    /\ query.sell_token # native_token
    /\ Len(est_searches) = 1
    /\ est_searches[1].sell_token # native_token

\* ------------------------------------------------------------------------
\* C28: both fetches are in flight together and the search follows them
\* ------------------------------------------------------------------------

\* estimate() starts: both futures of try_join exist and neither is ready.
C28_StartedTogether ==
    (est_pc = "idle" /\ est_pc' = "fetching") =>
        gas_fut'.st = "pending" /\ pools_fut'.st = "pending"

\* While estimate() waits, each fetch is in flight or done, whatever the
\* state of the other, and nothing has been searched.
C28_NoSearchWhileFetching ==
    est_pc = "fetching" =>
        /\ gas_fut.st \in {"pending", "ok"}
        /\ pools_fut.st \in {"pending", "ok"}
        /\ gas_fut.st = "pending" \/ pools_fut.st = "pending"
        /\ est_searches = <<>>
        /\ est_result = NoEstimate

\* A result other than the error of a fetch, and every search, come after
\* both fetches have succeeded; every search uses their snapshot and gas
\* price.
C28_SearchAfterBoth ==
    /\ (est_pc = "done" /\ est_result # ProtocolInternal) => EstDone
    /\ est_searches # <<>> => EstDone
    /\ \A i \in 1 .. Len(est_searches) :
          /\ est_searches[i].pools = pools_fut.val
          /\ est_searches[i].gas_price = gas_fut.val

\* C28: in one estimate the gas price fetch and the pool fetch are in
\* flight at the same time; the path comparison starts only after both
\* have succeeded, and the sub-search and the main search use that one
\* snapshot and gas price.
C28_FetchThenSearch ==
    /\ [](C28_NoSearchWhileFetching /\ C28_SearchAfterBoth)
    /\ [][C28_StartedTogether]_vars

\* Two searches on a snapshot with pools, after both fetches.
C28_Witness ==
    /\ EstDone
    /\ Len(est_searches) = 2
    /\ est_searches[1].pools = est_searches[2].pools
    /\ SumLen(pools_fut.val, TokenPairs) > 0
    /\ gas_fut.val > 0

\* ------------------------------------------------------------------------
\* C29: shared computations of different requests do not wait for each other
\* ------------------------------------------------------------------------

\* Whatever runs, a call can start, or go on with the protocols it
\* fetched.
C29_CanStart ==
    \A c \in Callers :
        /\ tf_pc[c] = "idle" =>
              \A q \in TfQueries : ENABLED GetQuote(c, q) /\ ENABLED GetTrade(c, q)
        /\ tf_pc[c] = "protocols" =>
              \A r \in ProtocolResponses : ENABLED ProtocolsFetched(c, r)

\* Whatever else runs, a running shared quote can complete with any answer.
C29_CanComplete ==
    \A i \in Slots :
        shared[i].st = "running" =>
            \A r \in QuoteResponses : ENABLED QuoteCompleted(i, r)

\* The start and the completion of one shared quote leave the other
\* shared quotes, and their entries in the map, as they are.
C29_OthersUntouched ==
    \A i, j \in Slots :
        /\ i # j
        /\ \/ shared[i].st = "free" /\ shared'[i].st = "running"
           \/ shared[i].st = "running" /\ shared'[i].st = "done"
        => /\ shared'[j] = shared[j]
           /\ shared[j].st = "running" =>
                 in_flight'[shared[j].key] = in_flight[shared[j].key]

\* C29: the map of the request sharing is locked for lookup, insert and
\* remove only, never while a shared computation runs: computations of
\* different keys are in flight together, and a slow one never keeps a
\* request of another key from starting or from completing.
C29_KeysDoNotSerialize ==
    /\ [](C29_CanStart /\ C29_CanComplete)
    /\ [][C29_OthersUntouched]_vars

\* Two quotes of one Query with different allowed protocols: one is done
\* while the other still runs.
C29_Witness ==
    /\ shared[1].st = "running"
    /\ shared[2].st = "done"
    /\ shared[1].key # shared[2].key
    /\ shared[1].key.data = shared[2].key.data
    /\ Holders(1) # {} /\ Holders(2) # {}

\* ------------------------------------------------------------------------
\* C22: run() gives the test node to one test at a time
\* ------------------------------------------------------------------------

\* Test t is between taking NODE_MUTEX and giving it back.
InRun(t) == t_pc[t] \in {"setup", "body", "reset", "clear", "exit"}

\* Every test between lock and release is the one holder of the mutex.
C22_OneHolder == \A t \in Tests : InRun(t) => mutex_owner = t

\* A test that waits for a free mutex can take it, poisoned or not.
C22_PoisonDoesNotBlock ==
    \A t \in Tests : (t_pc[t] = "start" /\ mutex_owner = 0) => ENABLED Lock(t)

\* C22: at most one test is between acquiring and releasing NODE_MUTEX at
\* any time, and a test that starts after an earlier test panicked and
\* poisoned the mutex still acquires it and runs alone.
C22_MutualExclusion == C22_OneHolder /\ C22_PoisonDoesNotBlock

\* A test runs its body with the poisoned mutex, after the panic of another
\* test, while a third waits.
C22_Witness ==
    \E t \in Tests, u \in Tests, v \in Tests :
        /\ t_pc[t] = "body" /\ mutex_owner = t /\ mutex_poisoned
        /\ t_pc[u] = "panicked"
        /\ t_pc[v] = "start"

\* ------------------------------------------------------------------------
\* C23: run() cleans up after the body and before the lock is released
\* ------------------------------------------------------------------------

\* The body of test t ended and catch_unwind returned its result.
BodyEnded(t) == t_result[t] # "none"

\* Test t gives NODE_MUTEX back in this step.
Releases(t) == mutex_owner = t /\ mutex_owner' = 0

\* The panic of test t is raised again in this step.
Reraises(t) == t_pc[t] # "panicked" /\ t_pc'[t] = "panicked"

\* The node is back at its snapshot and the database is empty.
CleanedUp == ~node_dirty /\ ~db_dirty

\* A body that ends, by return or by a caught panic, is followed by the
\* cleanup, with the lock still held.
C23_BodyThenCleanup ==
    \A t \in Tests :
        (t_pc[t] = "body" /\ t_pc'[t] \notin {"body", "aborted"})
            => (t_pc'[t] = "reset" /\ mutex_owner' = t /\ BodyEnded(t)')

\* C23: whether the test body returns or panics with a caught panic, the
\* node is reset and the database is cleared after the body ended and
\* before the lock is released, and the panic is raised again only after
\* that cleanup.
C23_CleanupBeforeRelease ==
    [][/\ C23_BodyThenCleanup
       /\ \A t \in Tests :
            /\ Releases(t) => (BodyEnded(t) /\ t_pc[t] = "exit" /\ CleanedUp)
            /\ Reraises(t) =>
                (t_result[t] = "panic" /\ t_pc[t] = "exit" /\ CleanedUp)
            /\ (t_pc'[t] = "exit" /\ t_pc[t] # "exit") =>
                (t_pc[t] = "clear" /\ ~node_dirty /\ CleanedUp')
            /\ (t_pc'[t] = "clear" /\ t_pc[t] # "clear") =>
                (t_pc[t] = "reset" /\ BodyEnded(t) /\ ~node_dirty')]_vars

\* A caught panic waits to be raised again with the cleanup done, after a
\* test that returned normally was cleaned up and left.
C23_Witness ==
    \E t \in Tests, u \in Tests :
        /\ t_pc[t] = "exit" /\ t_result[t] = "panic" /\ mutex_owner = t
        /\ CleanedUp
        /\ t_pc[u] = "passed"

\* ------------------------------------------------------------------------
\* C24: the contract of wait_for_condition
\* ------------------------------------------------------------------------

\* wait_for_condition returned.
Returned == w_pc = "done"

\* What holds of every return: the condition was evaluated, Ok is the
\* return after an evaluation that yielded true, and Err(timeout) is the
\* return with the timeout exceeded and the last evaluation false.
C24_Returns ==
    /\ Returned => w_evals >= 1
    /\ Returned <=> (w_result # "none")
    /\ (w_result = "ok") <=> (Returned /\ w_last)
    /\ (w_result = "timeout") <=> (Returned /\ ~w_last)
    /\ (w_result = "timeout") => w_elapsed > w_timeout

\* Every evaluation that yields false is the last one or is followed by
\* the sleep; no evaluation after the first starts with the timeout
\* exceeded, and nothing is evaluated after a true evaluation.
C24_NoEvaluationPastTimeout ==
    (w_evals' > w_evals) =>
        /\ w_evals' = w_evals + 1
        /\ ~w_last
        /\ w_evals >= 1 => w_elapsed <= w_timeout

\* C24: wait_for_condition evaluates the condition at least once, returns
\* Ok exactly when an evaluation of the condition returned true, returns
\* Err(timeout) once the timeout is exceeded with no true evaluation, and
\* terminates when every evaluation returns and time advances.
C24_WaitContract ==
    /\ []C24_Returns
    /\ [][C24_NoEvaluationPastTimeout]_vars
    /\ <>Returned

\* A call with a positive timeout returned Err(timeout) after several
\* evaluations, all of them false.
C24_Witness ==
    /\ Returned /\ w_result = "timeout"
    /\ w_timeout > 0 /\ w_evals >= 2 /\ w_elapsed > w_timeout

====
